---- MODULE Spec2Model ----
(***************************************************************************)
(* A model of the web-shell-emulator Shell (src/src/shell.ts, lines 1-491),*)
(* its command-line parser (src/src/parser.ts) and the BinFS command       *)
(* registry (src/src/backends/binfs.ts).                                   *)
(*                                                                         *)
(* Strings are sequences of one-character strings; control characters are  *)
(* named (CR, LF, ESC, ...).  Fixed message fragments are kept as single   *)
(* multi-character elements of such a sequence.                            *)
(***************************************************************************)
EXTENDS Integers, Sequences, FiniteSets, TLC

(***************************************************************************)
(* Bounds of the model.                                                    *)
(***************************************************************************)
MaxHist == 1
MaxTasks == 1
MaxLoads == 1
RaceMaxHist == 1
RaceMaxTasks == 2
RaceMaxLoads == 2
NavMaxHist == 3
MaxLine == 3
CdMaxHist == 2
RegMaxHist == 1
HostMaxHist == 1

(***************************************************************************)
(* Characters.                                                             *)
(***************************************************************************)
CR == "CR"
LF == "LF"
ESC == "ESC"
DEL == "DEL"
BS == "BS"
ETX == "ETX"
TAB == "TAB"
SOH == "SOH"
\* the backquote character
Backquote == "BACKQUOTE"
Undefined == "undefined"

\* the printable ASCII characters in code order, from 32 (space) to 126 (~)
Ascii ==
  <<" ", "!", "\"", "#", "$", "%", "&", "'", "(", ")", "*", "+", ",", "-", ".", "/",
    "0", "1", "2", "3", "4", "5", "6", "7", "8", "9", ":", ";", "<", "=", ">", "?",
    "@", "A", "B", "C", "D", "E", "F", "G", "H", "I", "J", "K", "L", "M", "N", "O",
    "P", "Q", "R", "S", "T", "U", "V", "W", "X", "Y", "Z", "[", "\\", "]", "^", "_",
    Backquote, "a", "b", "c", "d", "e", "f", "g", "h", "i", "j", "k", "l", "m", "n", "o",
    "p", "q", "r", "s", "t", "u", "v", "w", "x", "y", "z", "{", "|", "}", "~">>

\* char.charCodeAt(0)
CharCode(c) ==
  CASE c = SOH -> 1
    [] c = ETX -> 3
    [] c = BS -> 8
    [] c = TAB -> 9
    [] c = LF -> 10
    [] c = CR -> 13
    [] c = ESC -> 27
    [] c = DEL -> 127
    [] OTHER -> 31 + (CHOOSE i \in 1..Len(Ascii) : Ascii[i] = c)

\* the characters JavaScript's trim() and /\s/ treat as white space
IsSpace(c) == c \in {" ", TAB, LF, CR}

(***************************************************************************)
(* String helpers (JavaScript String.prototype methods).                   *)
(***************************************************************************)
RECURSIVE TrimStart(_)
TrimStart(s) ==
  IF s # <<>> /\ IsSpace(Head(s)) THEN TrimStart(Tail(s)) ELSE s

RECURSIVE TrimEnd(_)
TrimEnd(s) ==
  IF s # <<>> /\ IsSpace(s[Len(s)]) THEN TrimEnd(SubSeq(s, 1, Len(s) - 1)) ELSE s

\* a submission that takes the buffer as it is
NoTrim(s) == s

Trim(s) == TrimEnd(TrimStart(s))

StartsWith(s, p) == Len(p) <= Len(s) /\ SubSeq(s, 1, Len(p)) = p

\* a slice that keeps the whole string
SliceWhole(s, n) == s

\* s.slice(n) for 0 <= n
SliceFrom(s, n) == SubSeq(s, n + 1, Len(s))

\* s.slice(0, -1)
DropLast(s) == SubSeq(s, 1, Len(s) - 1)

\* c.repeat(n)
Repeat(c, n) == [i \in 1..n |-> c]

\* s.split(sep) for a one-character separator: never empty, keeps empty pieces
Split(s, sep) ==
  LET at == { i \in 1..Len(s) : s[i] = sep }
      nth(k) == CHOOSE i \in at : Cardinality({ j \in at : j < i }) = k - 1
      count == Cardinality(at)
  IN [k \in 1..(count + 1) |->
        SubSeq(s, IF k = 1 THEN 1 ELSE nth(k - 1) + 1,
                  IF k = count + 1 THEN Len(s) ELSE nth(k) - 1)]

\* s.split(/\s+/): a maximal run of white space is one separator
RECURSIVE SplitWSFrom(_, _, _)
SplitWSFrom(s, i, cur) ==
  IF i > Len(s) THEN <<cur>>
  ELSE IF IsSpace(s[i])
    THEN IF i < Len(s) /\ IsSpace(s[i + 1])
           THEN SplitWSFrom(s, i + 1, cur)
           ELSE <<cur>> \o SplitWSFrom(s, i + 1, <<>>)
  ELSE SplitWSFrom(s, i + 1, Append(cur, s[i]))

SplitWS(s) == SplitWSFrom(s, 1, <<>>)

\* parts.join(sep)
RECURSIVE Join(_, _)
Join(parts, sep) ==
  IF parts = <<>> THEN <<>>
  ELSE IF Len(parts) = 1 THEN parts[1]
  ELSE parts[1] \o sep \o Join(Tail(parts), sep)

Digits == <<"0", "1", "2", "3", "4", "5", "6", "7", "8", "9">>

\* String(n) for a non-negative integer n
RECURSIVE NatToString(_)
NatToString(n) ==
  IF n < 10 THEN <<Digits[n + 1]>>
  ELSE NatToString(n \div 10) \o <<Digits[(n % 10) + 1]>>

(***************************************************************************)
(* The parser.                                                             *)
(***************************************************************************)
NoError == [error |-> "none", message |-> <<>>]
UnsupportedSyntaxError(feature) ==
  [error |-> "UnsupportedSyntaxError", message |-> <<"Unsupported syntax: ">> \o feature]
\* a parse error thrown as an unsupported-syntax error
ParseErrorAsUnsupported(message) == UnsupportedSyntaxError(<<message>>)
ParseError(message) == [error |-> "ParseError", message |-> <<message>>]

RECURSIVE ScanUnsupported(_, _, _, _, _)
ScanUnsupported(input, i, inSingle, inDouble, escaped) ==
  IF i > Len(input)
  THEN IF inSingle THEN ParseError("Unterminated single quote")
       ELSE IF inDouble THEN ParseError("Unterminated double quote")
       ELSE NoError
  ELSE
    LET char == input[i]
        next == IF i + 1 <= Len(input) THEN input[i + 1] ELSE Undefined
    IN
    IF escaped THEN ScanUnsupported(input, i + 1, inSingle, inDouble, FALSE)
    ELSE IF char = "\\" /\ ~inSingle
      THEN ScanUnsupported(input, i + 1, inSingle, inDouble, TRUE)
    ELSE IF char = "'" /\ ~inDouble
      THEN ScanUnsupported(input, i + 1, ~inSingle, inDouble, FALSE)
    ELSE IF char = "\"" /\ ~inSingle
      THEN ScanUnsupported(input, i + 1, inSingle, ~inDouble, FALSE)
    ELSE IF ~inSingle /\ ~inDouble
      THEN IF char = "|" THEN UnsupportedSyntaxError(<<"pipes (|)">>)
           ELSE IF char = ">" \/ char = "<"
             THEN UnsupportedSyntaxError(<<"redirections (>, <, >>)">>)
           ELSE IF char = "&" /\ next = "&"
             THEN UnsupportedSyntaxError(<<"logical AND (&&)">>)
           ELSE IF char = "|" /\ next = "|"
             THEN UnsupportedSyntaxError(<<"logical OR (||)">>)
           ELSE IF char = ";" THEN UnsupportedSyntaxError(<<"command chaining (;)">>)
           ELSE IF char = Backquote
             THEN UnsupportedSyntaxError(<<"command substitution (", Backquote, Backquote, ")">>)
           ELSE IF char = "$" /\ next = "("
             THEN UnsupportedSyntaxError(<<"command substitution ($())">>)
           ELSE ScanUnsupported(input, i + 1, inSingle, inDouble, FALSE)
    ELSE ScanUnsupported(input, i + 1, inSingle, inDouble, FALSE)

\* a pre-scan that skips the first character
checkUnsupportedSyntaxFromSecond(input) == ScanUnsupported(input, 2, FALSE, FALSE, FALSE)

checkUnsupportedSyntax(input) == ScanUnsupported(input, 1, FALSE, FALSE, FALSE)

\* an escape switch that never keeps the backslash
DoubleQuoteEscapeDropsBackslash(char) ==
  IF char = "n" THEN <<LF>>
  ELSE IF char = "t" THEN <<TAB>>
  ELSE IF char = "r" THEN <<CR>>
  ELSE <<char>>

\* the escape switch of tokenize inside double quotes
DoubleQuoteEscape(char) ==
  IF char \in {"\"", "\\", "$", Backquote} THEN <<char>>
  ELSE IF char = "n" THEN <<LF>>
  ELSE IF char = "t" THEN <<TAB>>
  ELSE IF char = "r" THEN <<CR>>
  ELSE <<"\\", char>>

RECURSIVE TokenizeFrom(_, _, _, _, _, _, _, _)
TokenizeFrom(input, i, tokens, current, inSingle, inDouble, escaped, hasContent) ==
  IF i > Len(input)
  THEN IF current # <<>> \/ hasContent THEN Append(tokens, current) ELSE tokens
  ELSE
    LET char == input[i] IN
    IF escaped
    THEN LET add == IF inDouble THEN DoubleQuoteEscape(char)
                    ELSE IF ~inSingle THEN <<char>>
                    ELSE <<"\\", char>>
         IN TokenizeFrom(input, i + 1, tokens, current \o add,
                         inSingle, inDouble, FALSE, hasContent)
    ELSE IF char = "\\" /\ ~inSingle
      THEN TokenizeFrom(input, i + 1, tokens, current, inSingle, inDouble, TRUE, hasContent)
    ELSE IF char = "'" /\ ~inDouble
      THEN TokenizeFrom(input, i + 1, tokens, current, ~inSingle, inDouble, FALSE, TRUE)
    ELSE IF char = "\"" /\ ~inSingle
      THEN TokenizeFrom(input, i + 1, tokens, current, inSingle, ~inDouble, FALSE, TRUE)
    ELSE IF ~inSingle /\ ~inDouble /\ IsSpace(char)
      THEN IF current # <<>> \/ hasContent
           THEN TokenizeFrom(input, i + 1, Append(tokens, current), <<>>,
                             inSingle, inDouble, FALSE, FALSE)
           ELSE TokenizeFrom(input, i + 1, tokens, current,
                             inSingle, inDouble, FALSE, hasContent)
    ELSE TokenizeFrom(input, i + 1, tokens, Append(current, char),
                      inSingle, inDouble, FALSE, TRUE)

\* a tokenizer that drops empty tokens
tokenizeNoEmpty(input) ==
  SelectSeq(TokenizeFrom(input, 1, <<>>, <<>>, FALSE, FALSE, FALSE, FALSE),
            LAMBDA token : token # <<>>)

tokenize(input) == TokenizeFrom(input, 1, <<>>, <<>>, FALSE, FALSE, FALSE, FALSE)

\* the result of parseCommand: null, a parsed command, or the error it throws
ParsedNull == [kind |-> "null"]
parseCommand(input) ==
  LET trimmed == Trim(input) IN
  IF trimmed = <<>> THEN ParsedNull
  ELSE LET check == checkUnsupportedSyntax(trimmed) IN
       IF check.error # "none"
       THEN [kind |-> "throw", error |-> check.error, message |-> check.message]
       ELSE LET tokens == tokenize(trimmed) IN
            IF Len(tokens) = 0 THEN ParsedNull
            ELSE [kind |-> "command", name |-> tokens[1], args |-> Tail(tokens)]

(***************************************************************************)
(* Paths and the virtual filesystem.  fs maps every existing absolute,     *)
(* normalized path to "dir" or "file".                                     *)
(***************************************************************************)
RootDir == <<"/">>
BinDir == <<"/", "b", "i", "n">>
UsrDir == <<"/", "u", "s", "r">>
UsrBinDir == <<"/", "u", "s", "r", "/", "b", "i", "n">>
HomeParent == <<"/", "h", "o", "m", "e">>
HomeDir == <<"/", "h", "o", "m", "e", "/", "g", "u", "e", "s", "t">>
DefaultPath == BinDir \o <<":">> \o UsrBinDir
UserName == <<"g", "u", "e", "s", "t">>

\* path.split('/').filter((p) => p && p !== '.')
KeepSegments(parts) ==
  LET keep == { i \in 1..Len(parts) : parts[i] # <<>> /\ parts[i] # <<".">> }
      nth(k) == CHOOSE i \in keep : Cardinality({ j \in keep : j < i }) = k - 1
  IN [k \in 1..Cardinality(keep) |-> parts[nth(k)]]

\* the loop of normalizePath from its i-th part: push a segment, pop on '..'
RECURSIVE PopDotDot(_, _, _)
PopDotDot(parts, i, result) ==
  IF i > Len(parts) THEN result
  ELSE IF parts[i] = <<".", ".">>
    THEN PopDotDot(parts, i + 1, IF result = <<>> THEN <<>> ELSE DropLast(result))
  ELSE PopDotDot(parts, i + 1, Append(result, parts[i]))

\* normalizePath without the pop on '..'
normalizePathNoPop(path) ==
  <<"/">> \o Join(KeepSegments(Split(path, "/")), <<"/">>)

normalizePath(path) ==
  <<"/">> \o Join(PopDotDot(KeepSegments(Split(path, "/")), 1, <<>>), <<"/">>)

\* the segments of a normalized path
Segments(path) == KeepSegments(Split(path, "/"))

\* fs.existsSync(path)
existsSync(files, path) == normalizePath(path) \in DOMAIN files

\* whether fs.readdirSync(dir) returns (the directory exists and is one)
CanReaddir(files, dir) ==
  normalizePath(dir) \in DOMAIN files /\ files[normalizePath(dir)] = "dir"

\* the entry names of fs.readdirSync(dir), as a set
readdirSync(files, dir) ==
  LET d == Segments(normalizePath(dir)) IN
  { Segments(p)[Len(Segments(p))] :
      p \in { q \in DOMAIN files : /\ Len(Segments(q)) = Len(d) + 1
                                    /\ SubSeq(Segments(q), 1, Len(d)) = d } }

(***************************************************************************)
(* Command entries.  A callable has the number of parameters it declares   *)
(* (Function.length), what it really is, and an identity: the registry     *)
(* entry it is or came from and, for the product of a loader, the number   *)
(* of the loader invocation that made it.                                  *)
(***************************************************************************)
Null == [kind |-> "null"]
DirectEntry(id) == [kind |-> "command", length |-> 1, id |-> id, call |-> 0]
LazyEntry(id) == [kind |-> "loader", length |-> 0, id |-> id, call |-> 0]
\* the command function the call-th invocation of a loader produces
LoadedFn(entry, call) == [kind |-> "command", length |-> 1, id |-> entry.id, call |-> call]

\* isLazyCommand: decided by the number of declared parameters
isLazyCommand(entry) == entry.length = 0

(***************************************************************************)
(* The state of one Shell and of the runtime around it.                    *)
(***************************************************************************)
VARIABLES
  fs,              \* the virtual filesystem: path -> "dir" | "file"
  mounts,          \* the mount table: mount point -> backend handle
  commandStores,   \* binfs.ts commandStores: BinFS handle -> (name -> entry)
  env,             \* Shell.env
  cwd,             \* Shell._cwd
  inputBuffer,     \* Shell.inputBuffer
  loadedCommands,  \* Shell.loadedCommands: full path -> loaded callable
  history,         \* Shell.history
  historyIndex,    \* Shell.historyIndex (0-based, -1: not navigating)
  savedInput,      \* Shell.savedInput
  escapeBuffer,    \* Shell.escapeBuffer
  tasks,           \* the suspended executeCommand calls, oldest first
  chunkOpen,       \* handleInput is inside its loop: more bytes of the chunk follow
  loaderCalls,     \* per full path, how often its lazy loader has been invoked
  inputConsumers,  \* how many consumers start() has handed to the onInput registration
  written          \* what the last step wrote, in order, to stdout and stderr

vars == <<fs, mounts, commandStores, env, cwd, inputBuffer, loadedCommands, history,
          historyIndex, savedInput, escapeBuffer, tasks, chunkOpen, loaderCalls,
          inputConsumers, written>>

configVars == <<fs, mounts, commandStores>>
inputVars == <<inputBuffer, history, historyIndex, savedInput, escapeBuffer>>
execVars == <<env, cwd, loadedCommands, tasks, loaderCalls>>

\* one write(text) call on a sink
Write(sink, text) == [sink |-> sink, text |-> text]

\* Map.get with undefined as the empty string, as in (env.get(k) || '')
EnvGet(e, k) == IF k \in DOMAIN e THEN e[k] ELSE <<>>
\* Map.set
MapSet(m, k, v) == [x \in DOMAIN m \cup {k} |-> IF x = k THEN v ELSE m[x]]

\* the default promptFn with colours off: USER@web-shell:cwd$
PromptText(e, dir) ==
  (IF "USER" \in DOMAIN e THEN e["USER"] ELSE <<Undefined>>)
    \o <<"@web-shell", ":">> \o dir \o <<"$ ">>

\* printPrompt()
printPrompt(e, dir) == Write("stdout", PromptText(e, dir))

(***************************************************************************)
(* The configuration a Shell is constructed over: two BinFS mounts on the  *)
(* default PATH.  "a" is a lazy command in both, "b" a direct command of   *)
(* /usr/bin only; nothing else is registered.                              *)
(***************************************************************************)
NameA == <<"a">>
NameB == <<"b">>
BinCommands == (NameA :> LazyEntry("bin/a"))
UsrBinCommands == (NameA :> LazyEntry("usr/bin/a")) @@ (NameB :> DirectEntry("usr/bin/b"))

\* BinFS.create: one placeholder file per command name
BinFSFiles(dir, commands) == [p \in { dir \o <<"/">> \o n : n \in DOMAIN commands } |-> "file"]

InitFs ==
  [p \in {RootDir, BinDir, UsrDir, UsrBinDir, HomeParent, HomeDir} |-> "dir"]
    @@ BinFSFiles(BinDir, BinCommands) @@ BinFSFiles(UsrBinDir, UsrBinCommands)

InitMounts == (RootDir :> "inmemory") @@ (BinDir :> "binfs1") @@ (UsrBinDir :> "binfs2")
InitCommandStores == ("binfs1" :> BinCommands) @@ ("binfs2" :> UsrBinCommands)

\* the PATH values a session may be constructed with
PathChoices == { DefaultPath, UsrBinDir \o <<":">> \o BinDir }

InitEnv(path) == ("PATH" :> path) @@ ("HOME" :> HomeDir) @@ ("USER" :> UserName)

\* the state after construction, for a PATH of paths
InitWith(paths) ==
  /\ fs = InitFs
  /\ mounts = InitMounts
  /\ commandStores = InitCommandStores
  /\ \E path \in paths : env = InitEnv(path)
  /\ cwd = (IF EnvGet(env, "HOME") # <<>> THEN env["HOME"] ELSE RootDir)
  /\ inputBuffer = <<>>
  /\ loadedCommands = <<>>
  /\ history = <<>>
  /\ historyIndex = -1
  /\ savedInput = <<>>
  /\ escapeBuffer = <<>>
  /\ tasks = <<>>
  /\ chunkOpen = FALSE
  /\ loaderCalls = <<>>
  /\ written = <<>>
  /\ inputConsumers = 0

Init == InitWith(PathChoices)

(***************************************************************************)
(* The command resolver.                                                   *)
(***************************************************************************)
\* binfs.ts isBinFS: membership of the handle in commandStores
isBinFS(handle) == handle \in DOMAIN commandStores

\* a getCommand that looks the name up in every instance's table
getCommandAnyInstance(handle, name) ==
  IF \E h \in DOMAIN commandStores : name \in DOMAIN commandStores[h]
  THEN commandStores[CHOOSE h \in DOMAIN commandStores : name \in DOMAIN commandStores[h]][name]
  ELSE Null

\* binfs.ts getCommand
getCommand(handle, name) ==
  IF handle \in DOMAIN commandStores /\ name \in DOMAIN commandStores[handle]
  THEN commandStores[handle][name] ELSE Null

getCommandFromPath(mountPath, name) ==
  IF mountPath \notin DOMAIN mounts THEN Null
  ELSE IF ~isBinFS(mounts[mountPath]) THEN Null
  ELSE getCommand(mounts[mountPath], name)

\* a resolver that walks PATH from its last directory to its first
PathDirsReversed(e) ==
  LET dirs == Split(EnvGet(e, "PATH"), ":")
  IN [i \in 1..Len(dirs) |-> dirs[Len(dirs) + 1 - i]]

\* the directories resolveCommand walks, in order
PathDirs(e) == Split(EnvGet(e, "PATH"), ":")

FullPath(dir, name) == dir \o <<"/">> \o name

\* cache.get(fullPath)
CacheGet(cache, fullPath) ==
  IF fullPath \in DOMAIN cache THEN cache[fullPath] ELSE Null

\* resolveCommand up to its first await: it returns a callable or null, or it
\* has invoked the loader of a lazy entry and awaits it
RECURSIVE ResolveFrom(_, _, _, _)
ResolveFrom(dirs, i, name, cache) ==
  IF i > Len(dirs) THEN [status |-> "return", fn |-> Null]
  ELSE
    LET dir == dirs[i]
        fullPath == FullPath(dir, name)
        cached == CacheGet(cache, fullPath)
        entry == getCommandFromPath(dir, name)
    IN
    IF ~existsSync(fs, fullPath) THEN ResolveFrom(dirs, i + 1, name, cache)
    ELSE IF cached # Null THEN [status |-> "return", fn |-> cached]
    ELSE IF entry = Null THEN ResolveFrom(dirs, i + 1, name, cache)
    ELSE IF isLazyCommand(entry)
      THEN [status |-> "await", path |-> fullPath, entry |-> entry]
    ELSE [status |-> "return", fn |-> entry]

\* a resolver that gives up at the first directory holding the candidate path
resolveCommandStopsAtMiss(name) ==
  LET dirs == PathDirs(env)
      holding == { k \in 1..Len(dirs) : existsSync(fs, FullPath(dirs[k], name)) }
      last == IF holding = {} THEN Len(dirs)
              ELSE CHOOSE k \in holding : \A j \in holding : k <= j
  IN ResolveFrom(SubSeq(dirs, 1, last), 1, name, loadedCommands)

resolveCommand(name) == ResolveFrom(PathDirs(env), 1, name, loadedCommands)

\* how often the loader of fullPath has been invoked
Calls(fullPath) == IF fullPath \in DOMAIN loaderCalls THEN loaderCalls[fullPath] ELSE 0

(***************************************************************************)
(* executeCommand.  A suspended call is a record of tasks:                 *)
(*   pc = "loading"   resolveCommand awaits the loader it invoked          *)
(*   pc = "resolved"  executeCommand awaits resolveCommand, which returned *)
(*   pc = "running"   executeCommand awaits the promise of an async body   *)
(*   pc = "returned"  executeCommand awaits the value a body returned      *)
(***************************************************************************)
NoCode == <<>>
Task(pc, name, args, fn, path, call, code) ==
  [pc |-> pc, name |-> name, args |-> args, fn |-> fn, path |-> path,
   call |-> call, code |-> code]

RemoveAt(seq, i) == SubSeq(seq, 1, i - 1) \o SubSeq(seq, i + 1, Len(seq))

\* a continuation that runs as a microtask, before any later input chunk
MicrotaskPcs == {"resolved", "returned"}
MicrotaskPending == \E i \in 1..Len(tasks) : tasks[i].pc \in MicrotaskPcs

\* the text written for an error thrown by parseCommand
ParseFailureText(parsed) ==
  IF parsed.error = "UnsupportedSyntaxError" THEN parsed.message \o <<CR, LF>>
  ELSE IF parsed.error = "ParseError" THEN <<"Parse error: ">> \o parsed.message \o <<CR, LF>>
  ELSE <<"Error: ">> \o parsed.message \o <<CR, LF>>

\* a not-found message without its line ending
NotFoundTextUnterminated(name) == name \o <<": command not found">>

NotFoundText(name) == name \o <<": command not found", CR, LF>>
ExecFailureText == <<"Error: ", "err", CR, LF>>

\* an executeCommand that records success whatever the body returned
ExitStatusZero(code) == NatToString(0)

\* String(exitCode ?? 0)
ExitStatus(code) == IF code = NoCode THEN NatToString(0) ELSE NatToString(code[1])

\* executeCommand(line) from its call to its first await or its return;
\* pre is what the caller wrote before
executeCommand(line, pre) ==
  IF line = <<>>
  THEN /\ written' = Append(pre, printPrompt(env, cwd))
       /\ UNCHANGED execVars
  ELSE
    LET parsed == parseCommand(line) IN
    IF parsed.kind = "throw"
    THEN /\ written' = pre \o <<Write("stderr", ParseFailureText(parsed)), printPrompt(env, cwd)>>
         /\ UNCHANGED execVars
    ELSE IF parsed.kind = "null"
    THEN /\ written' = Append(pre, printPrompt(env, cwd))
         /\ UNCHANGED execVars
    ELSE
      LET r == resolveCommand(parsed.name) IN
      IF r.status = "return"
      THEN /\ tasks' = Append(tasks, Task("resolved", parsed.name, parsed.args, r.fn, <<>>, 0, NoCode))
           /\ written' = pre
           /\ UNCHANGED <<env, cwd, loadedCommands, loaderCalls>>
      ELSE /\ loaderCalls' = MapSet(loaderCalls, r.path, Calls(r.path) + 1)
           /\ tasks' = Append(tasks, Task("loading", parsed.name, parsed.args, r.entry, r.path,
                                          Calls(r.path) + 1, NoCode))
           /\ written' = pre
           /\ UNCHANGED <<env, cwd, loadedCommands>>

(***************************************************************************)
(* The continuations of a suspended executeCommand.                        *)
(***************************************************************************)
\* what invoking a command body does: it returns a value, throws, or returns
\* a promise that settles later
BodyOutcomes == {"return", "throw", "async"}
\* the values a body returns: nothing, or a number
ExitCodes == {NoCode, <<2>>}

\* the end of executeCommand after a body that returned code
FinishReturned(i, code) ==
  /\ env' = MapSet(env, "?", ExitStatus(code))
  /\ tasks' = RemoveAt(tasks, i)
  /\ written' = <<printPrompt(env', cwd)>>
  /\ UNCHANGED <<cwd, loadedCommands, loaderCalls>>

\* the catch block of executeCommand and its end
FinishThrown(i) ==
  /\ env' = MapSet(env, "?", NatToString(1))
  /\ tasks' = RemoveAt(tasks, i)
  /\ written' = <<Write("stderr", ExecFailureText), printPrompt(env', cwd)>>
  /\ UNCHANGED <<cwd, loadedCommands, loaderCalls>>

\* resolveCommand resumes after its loader settled: it caches and returns the
\* loaded function, or the rejection leaves executeCommand by its await
LoaderSettles(i, ok) ==
  /\ ~chunkOpen
  /\ i \in 1..Len(tasks)
  /\ tasks[i].pc = "loading"
  /\ IF ok
     THEN LET loadedFn == LoadedFn(tasks[i].fn, tasks[i].call) IN
          /\ loadedCommands' = MapSet(loadedCommands, tasks[i].path, loadedFn)
          /\ tasks' = [tasks EXCEPT ![i].pc = "resolved", ![i].fn = loadedFn]
     ELSE /\ tasks' = RemoveAt(tasks, i)
          /\ UNCHANGED loadedCommands
  /\ written' = <<>>
  /\ UNCHANGED <<env, cwd, loaderCalls, chunkOpen>>
  /\ UNCHANGED <<configVars, inputConsumers>>
  /\ UNCHANGED inputVars

\* executeCommand resumes after resolveCommand: command not found, or the body
\* is invoked
ResumeResolved(i, outcome, code) ==
  /\ ~chunkOpen
  /\ i \in 1..Len(tasks)
  /\ tasks[i].pc = "resolved"
  /\ IF tasks[i].fn = Null
     THEN /\ tasks' = RemoveAt(tasks, i)
          /\ written' = <<Write("stderr", NotFoundText(tasks[i].name)), printPrompt(env, cwd)>>
          /\ UNCHANGED <<env, cwd, loadedCommands, loaderCalls>>
     ELSE IF outcome = "throw" THEN FinishThrown(i)
     ELSE IF outcome = "return"
       THEN /\ tasks' = [tasks EXCEPT ![i].pc = "returned", ![i].code = code]
            /\ written' = <<>>
            /\ UNCHANGED <<env, cwd, loadedCommands, loaderCalls>>
     ELSE /\ tasks' = [tasks EXCEPT ![i].pc = "running"]
          /\ written' = <<>>
          /\ UNCHANGED <<env, cwd, loadedCommands, loaderCalls>>
  /\ UNCHANGED chunkOpen
  /\ UNCHANGED <<configVars, inputConsumers>>
  /\ UNCHANGED inputVars

\* executeCommand resumes with the value a body returned
ResumeReturned(i) ==
  /\ ~chunkOpen
  /\ i \in 1..Len(tasks)
  /\ tasks[i].pc = "returned"
  /\ FinishReturned(i, tasks[i].code)
  /\ UNCHANGED chunkOpen
  /\ UNCHANGED <<configVars, inputConsumers>>
  /\ UNCHANGED inputVars

\* the promise of an async body settles and executeCommand resumes
BodySettles(i, ok, code) ==
  /\ ~chunkOpen
  /\ i \in 1..Len(tasks)
  /\ tasks[i].pc = "running"
  /\ IF ok THEN FinishReturned(i, code) ELSE FinishThrown(i)
  /\ UNCHANGED chunkOpen
  /\ UNCHANGED <<configVars, inputConsumers>>
  /\ UNCHANGED inputVars

(***************************************************************************)
(* History navigation.                                                     *)
(***************************************************************************)
\* replaceInputLine(newLine): what it writes
ReplaceWrites(old, newLine) ==
  <<Write("stdout", Repeat(BS, Len(old)) \o Repeat(" ", Len(old)) \o Repeat(BS, Len(old))),
    Write("stdout", newLine)>>

\* the navigation state historyUp and historyDown work on
NavState == [buffer |-> inputBuffer, index |-> historyIndex, saved |-> savedInput]

\* a historyUp that starts navigating one past the newest entry
UpStateOffByOne(h, s) ==
  IF Len(h) = 0 THEN [state |-> s, replaced |-> FALSE]
  ELSE IF s.index = -1
    THEN [state |-> [buffer |-> h[Len(h)], index |-> Len(h), saved |-> s.buffer],
          replaced |-> TRUE]
  ELSE IF s.index > 0
    THEN [state |-> [buffer |-> h[s.index], index |-> s.index - 1, saved |-> s.saved],
          replaced |-> TRUE]
  ELSE [state |-> s, replaced |-> FALSE]

\* historyUp on a navigation state; replaced tells whether replaceInputLine ran
UpState(h, s) ==
  IF Len(h) = 0 THEN [state |-> s, replaced |-> FALSE]
  ELSE IF s.index = -1
    THEN [state |-> [buffer |-> h[Len(h)], index |-> Len(h) - 1, saved |-> s.buffer],
          replaced |-> TRUE]
  ELSE IF s.index > 0
    THEN [state |-> [buffer |-> h[s.index], index |-> s.index - 1, saved |-> s.saved],
          replaced |-> TRUE]
  ELSE [state |-> s, replaced |-> FALSE]

\* a historyDown that forgets the saved draft when it leaves navigation
DownStateDropsDraft(h, s) ==
  IF s.index = -1 THEN [state |-> s, replaced |-> FALSE]
  ELSE IF s.index < Len(h) - 1
    THEN [state |-> [buffer |-> h[s.index + 2], index |-> s.index + 1, saved |-> s.saved],
          replaced |-> TRUE]
  ELSE [state |-> [buffer |-> <<>>, index |-> -1, saved |-> s.saved], replaced |-> TRUE]

\* historyDown on a navigation state
DownState(h, s) ==
  IF s.index = -1 THEN [state |-> s, replaced |-> FALSE]
  ELSE IF s.index < Len(h) - 1
    THEN [state |-> [buffer |-> h[s.index + 2], index |-> s.index + 1, saved |-> s.saved],
          replaced |-> TRUE]
  ELSE [state |-> [buffer |-> s.saved, index |-> -1, saved |-> s.saved], replaced |-> TRUE]

\* the effect of a navigation step r on the shell
Navigate(r) ==
  /\ inputBuffer' = r.state.buffer
  /\ historyIndex' = r.state.index
  /\ savedInput' = r.state.saved
  /\ written' = IF r.replaced THEN ReplaceWrites(inputBuffer, r.state.buffer) ELSE <<>>

\* a historyUp that takes no snapshot of the draft
historyUpNoSnapshot ==
  Navigate([UpState(history, NavState) EXCEPT !.state.saved = savedInput])

historyUp == Navigate(UpState(history, NavState))

historyDown == Navigate(DownState(history, NavState))

ArrowUp == <<ESC, "[", "A">>
ArrowDown == <<ESC, "[", "B">>
ArrowRight == <<ESC, "[", "C">>
ArrowLeft == <<ESC, "[", "D">>
\* the length at which an unmatched escape sequence is discarded
EscapeMaxLen == 3

\* an accumulator that gives up after the byte that follows ESC
escapeByteShort(char) ==
  /\ escapeBuffer' = <<>>
  /\ written' = <<>>
  /\ UNCHANGED <<inputBuffer, history, historyIndex, savedInput>>
  /\ UNCHANGED execVars

\* handleInput, one byte while escapeBuffer is not empty
escapeByte(char) ==
  LET buffer == Append(escapeBuffer, char) IN
  /\ IF buffer = ArrowUp THEN historyUp /\ escapeBuffer' = <<>>
     ELSE IF buffer = ArrowDown THEN historyDown /\ escapeBuffer' = <<>>
     ELSE /\ escapeBuffer' = (IF buffer = ArrowRight \/ buffer = ArrowLeft
                                  \/ Len(buffer) >= EscapeMaxLen
                               THEN <<>> ELSE buffer)
          /\ written' = <<>>
          /\ UNCHANGED <<inputBuffer, historyIndex, savedInput>>
  /\ UNCHANGED history
  /\ UNCHANGED execVars

(***************************************************************************)
(* Tab completion.                                                         *)
(***************************************************************************)
\* a < b in the order of Array.prototype.sort(): by character code
RECURSIVE StrLess(_, _)
StrLess(a, b) ==
  IF b = <<>> THEN FALSE
  ELSE IF a = <<>> THEN TRUE
  ELSE IF CharCode(Head(a)) # CharCode(Head(b)) THEN CharCode(Head(a)) < CharCode(Head(b))
  ELSE StrLess(Tail(a), Tail(b))

\* the strings of a set as a sorted array
RECURSIVE SortSet(_)
SortSet(S) ==
  IF S = {} THEN <<>>
  ELSE LET least == CHOOSE x \in S : \A y \in S \ {x} : StrLess(x, y)
       IN <<least>> \o SortSet(S \ {least})

\* a completion that looks into the first PATH directory only
getCommandCompletionsFirstDir(prefix) ==
  LET dir == PathDirs(env)[1]
  IN SortSet(IF CanReaddir(fs, dir)
             THEN { n \in readdirSync(fs, dir) : StartsWith(n, prefix) }
             ELSE {})

\* getCommandCompletions(prefix)
getCommandCompletions(prefix) ==
  LET pathDirs == PathDirs(env)
      found == UNION { IF CanReaddir(fs, pathDirs[i])
                       THEN { n \in readdirSync(fs, pathDirs[i]) : StartsWith(n, prefix) }
                       ELSE {} : i \in 1..Len(pathDirs) }
  IN SortSet(found)

\* resolvePath(path)
resolvePath(path) ==
  IF StartsWith(path, <<"/">>) THEN normalizePath(path)
  ELSE IF path = <<"~">> \/ StartsWith(path, <<"~", "/">>)
    THEN LET home == IF EnvGet(env, "HOME") # <<>> THEN env["HOME"] ELSE <<"/">>
         IN normalizePath(IF path = <<"~">> THEN home ELSE home \o SliceFrom(path, 1))
  ELSE normalizePath(cwd \o <<"/">> \o path)

\* prefix.lastIndexOf('/'), 1-based; 0 when there is none
LastSlash(prefix) ==
  IF \E i \in 1..Len(prefix) : prefix[i] = "/"
  THEN CHOOSE i \in 1..Len(prefix) :
         prefix[i] = "/" /\ \A j \in (i + 1)..Len(prefix) : prefix[j] # "/"
  ELSE 0

\* getPathCompletions(prefix)
getPathCompletions(prefix) ==
  LET lastSlash == LastSlash(prefix)
      typedDir == IF SubSeq(prefix, 1, lastSlash - 1) # <<>>
                  THEN SubSeq(prefix, 1, lastSlash - 1) ELSE <<"/">>
      searchDir == IF lastSlash = 0 THEN cwd
                   ELSE IF StartsWith(typedDir, <<"/">>) THEN typedDir
                   ELSE resolvePath(typedDir)
      filePrefix == IF lastSlash = 0 THEN prefix ELSE SliceFrom(prefix, lastSlash)
      fullPath(entry) == IF searchDir = <<"/">> THEN <<"/">> \o entry
                         ELSE searchDir \o <<"/">> \o entry
      isDirectory(entry) == /\ normalizePath(fullPath(entry)) \in DOMAIN fs
                            /\ fs[normalizePath(fullPath(entry))] = "dir"
      found == IF CanReaddir(fs, searchDir)
               THEN { IF isDirectory(n) THEN n \o <<"/">> ELSE n :
                        n \in { m \in readdirSync(fs, searchDir) : StartsWith(m, filePrefix) } }
               ELSE {}
  IN SortSet(found)

\* a list of the completions that does not redraw the draft
ListWritesNoRedraw(completions) ==
  <<Write("stdout", <<CR, LF>>),
    Write("stdout", Join(completions, <<" ", " ">>) \o <<CR, LF>>),
    printPrompt(env, cwd)>>

\* what Tab writes when several completions exist
ListWrites(completions) ==
  <<Write("stdout", <<CR, LF>>),
    Write("stdout", Join(completions, <<" ", " ">>) \o <<CR, LF>>),
    printPrompt(env, cwd),
    Write("stdout", inputBuffer)>>

handleTabCompletion ==
  LET parts == SplitWS(inputBuffer) IN
  IF Len(parts) <= 1
  THEN LET prefix == parts[1]
           completions == getCommandCompletions(prefix)
           completion == SliceFrom(completions[1], Len(prefix)) \o <<" ">>
       IN IF Len(completions) = 1
          THEN inputBuffer' = inputBuffer \o completion /\ written' = <<Write("stdout", completion)>>
          ELSE IF Len(completions) > 1
          THEN written' = ListWrites(completions) /\ UNCHANGED inputBuffer
          ELSE written' = <<>> /\ UNCHANGED inputBuffer
  ELSE LET pathPrefix == parts[Len(parts)]
           completions == getPathCompletions(pathPrefix)
           completion == SliceFrom(completions[1], Len(pathPrefix))
       IN IF Len(completions) = 1
          THEN inputBuffer' = inputBuffer \o completion /\ written' = <<Write("stdout", completion)>>
          ELSE IF Len(completions) > 1
          THEN written' = ListWrites(completions) /\ UNCHANGED inputBuffer
          ELSE written' = <<>> /\ UNCHANGED inputBuffer

(***************************************************************************)
(* processInputChar and handleInput.                                       *)
(***************************************************************************)
\* a history that records every submitted line
HistoryPushAlways(h, line) == Append(h, line)

\* the history after line was submitted
HistoryPush(h, line) ==
  IF line # <<>> /\ (Len(h) = 0 \/ h[Len(h)] # line) THEN Append(h, line) ELSE h

\* an Enter that leaves the history cursor where it is
submitLineKeepsCursor ==
  LET line == Trim(inputBuffer) IN
  /\ inputBuffer' = <<>>
  /\ history' = HistoryPush(history, line)
  /\ historyIndex' = historyIndex
  /\ executeCommand(line, <<Write("stdout", <<CR, LF>>)>>)
  /\ UNCHANGED savedInput

\* Enter
submitLine ==
  LET line == Trim(inputBuffer) IN
  /\ inputBuffer' = <<>>
  /\ history' = HistoryPush(history, line)
  /\ historyIndex' = -1
  /\ executeCommand(line, <<Write("stdout", <<CR, LF>>)>>)
  /\ UNCHANGED savedInput

backspace ==
  /\ IF Len(inputBuffer) > 0
     THEN inputBuffer' = DropLast(inputBuffer) /\ written' = <<Write("stdout", <<BS, " ", BS>>)>>
     ELSE UNCHANGED inputBuffer /\ written' = <<>>
  /\ UNCHANGED <<history, historyIndex, savedInput>>
  /\ UNCHANGED execVars

\* a Ctrl+C that redraws the prompt over the draft it keeps
cancelInputKeepsDraft ==
  /\ historyIndex' = -1
  /\ written' = <<Write("stdout", <<"^C", CR, LF>>), printPrompt(env, cwd)>>
  /\ UNCHANGED <<inputBuffer, history, savedInput>>
  /\ UNCHANGED execVars

cancelInput ==
  /\ inputBuffer' = <<>>
  /\ historyIndex' = -1
  /\ written' = <<Write("stdout", <<"^C", CR, LF>>), printPrompt(env, cwd)>>
  /\ UNCHANGED <<history, savedInput>>
  /\ UNCHANGED execVars

\* the first code that is not a control character
FirstPrintable == 32

processInputChar(char) ==
  IF char = CR \/ char = LF THEN submitLine
  ELSE IF char = DEL \/ char = BS THEN backspace
  ELSE IF char = ETX THEN cancelInput
  ELSE IF char = TAB
    THEN /\ handleTabCompletion
         /\ UNCHANGED <<history, historyIndex, savedInput>>
         /\ UNCHANGED execVars
  ELSE IF CharCode(char) < FirstPrintable
    THEN /\ written' = <<>>
         /\ UNCHANGED <<inputBuffer, history, historyIndex, savedInput>>
         /\ UNCHANGED execVars
  ELSE /\ inputBuffer' = Append(inputBuffer, char)
       /\ written' = <<Write("stdout", <<char>>)>>
       /\ UNCHANGED <<history, historyIndex, savedInput>>
       /\ UNCHANGED execVars

\* one iteration of the loop of handleInput: the byte char; more tells whether
\* the chunk holds further bytes.  A new chunk starts only when no microtask
\* is pending.
HandleInput(char, more) ==
  /\ chunkOpen \/ ~MicrotaskPending
  /\ chunkOpen' = more
  /\ IF Len(escapeBuffer) > 0 THEN escapeByte(char)
     ELSE IF char = ESC
       THEN /\ escapeBuffer' = <<ESC>>
            /\ written' = <<>>
            /\ UNCHANGED <<inputBuffer, history, historyIndex, savedInput>>
            /\ UNCHANGED execVars
     ELSE processInputChar(char) /\ UNCHANGED escapeBuffer
  /\ UNCHANGED <<configVars, inputConsumers>>

(***************************************************************************)
(* Specifications.  Each draws the typed bytes from a small alphabet and   *)
(* the typed drafts from the prefixes of a few lines.                      *)
(***************************************************************************)
IsPrefix(p, s) == StartsWith(s, p)

\* a byte that processInputChar appends to the draft
IsTyped(char) ==
  /\ escapeBuffer = <<>>
  /\ char \notin {ESC, CR, LF, DEL, BS, ETX, TAB}
  /\ CharCode(char) >= FirstPrintable

\* the draft grows by typing only along the lines of a set
TypesAlong(char, lines) ==
  IsTyped(char) => \E l \in lines : IsPrefix(Append(inputBuffer, char), l)

WithinBounds(maxHist, maxTasks, maxLoads) ==
  /\ Len(history) <= maxHist
  /\ Len(tasks) <= maxTasks
  /\ \A p \in DOMAIN loaderCalls : loaderCalls[p] <= maxLoads

\* the continuations, common to the specifications
Loaded == \E i \in 1..Len(tasks), ok \in BOOLEAN : LoaderSettles(i, ok)
Resolved == \E i \in 1..Len(tasks), outcome \in BodyOutcomes, code \in ExitCodes :
              ResumeResolved(i, outcome, IF outcome = "return" THEN code ELSE NoCode)
Returned == \E i \in 1..Len(tasks) : ResumeReturned(i)
Settled == \E i \in 1..Len(tasks), ok \in BOOLEAN, code \in ExitCodes :
              BodySettles(i, ok, IF ok THEN code ELSE NoCode)

\* Spec: command execution, one line in flight; every byte arrives as a chunk
\* of its own
ExecBytes == {"a", "b", "x", ";", "'", CR, ETX}
ExecLines == { <<"a">>, <<"b">>, <<"x">>, <<";">>, <<"'">> }

Input ==
  \E char \in ExecBytes :
    /\ TypesAlong(char, ExecLines)
    /\ HandleInput(char, FALSE)
    /\ WithinBounds(MaxHist, MaxTasks, MaxLoads)'

Next == Input \/ Loaded \/ Resolved \/ Returned \/ Settled

Spec == Init /\ [][Next]_vars

\* SpecRace: command execution with lines submitted while others are in flight
RaceInput ==
  \E char \in ExecBytes, more \in BOOLEAN :
    /\ TypesAlong(char, ExecLines)
    /\ HandleInput(char, more)
    /\ WithinBounds(RaceMaxHist, RaceMaxTasks, RaceMaxLoads)'

RaceNext == RaceInput \/ Loaded \/ Resolved \/ Returned \/ Settled

SpecRace == Init /\ [][RaceNext]_vars

\* SpecNav: line editing, history navigation and escape decoding; every byte
\* arrives as a chunk of its own and no typed name is a command
NavBytes == {"A", "B", "[", " ", CR, LF, ETX, TAB, DEL, ESC, SOH}
NavLines == { <<"A", " ">>, <<" ", "B">>, <<"[">> }

NavInput ==
  \E char \in NavBytes :
    /\ TypesAlong(char, NavLines)
    /\ HandleInput(char, FALSE)
    /\ Len(history') <= NavMaxHist

NavNext == NavInput \/ Resolved

NavInit == InitWith({DefaultPath})

SpecNav == NavInit /\ [][NavNext]_vars

\* SpecTab: Tab completion over the filesystem of the completion tests, with a
\* PATH that names a missing directory and a session started in /site or in
\* /home/guest
SiteDir == <<"/", "s", "i", "t", "e">>
SharedDir == <<"/", "s", "h", "a", "r", "e", "d">>
IndexMd == <<"i", "n", "d", "e", "x", ".", "m", "d">>
AboutMd == <<"a", "b", "o", "u", "t", ".", "m", "d">>
DataTxt == <<"d", "a", "t", "a", ".", "t", "x", "t">>
MissingDir == <<"/", "n", "o", "p", "e">>

TabFs ==
  InitFs @@ [p \in {SiteDir, SharedDir} |-> "dir"]
         @@ [p \in { SiteDir \o <<"/">> \o IndexMd, SiteDir \o <<"/">> \o AboutMd,
                     SharedDir \o <<"/">> \o DataTxt } |-> "file"]

TabPaths == { MissingDir \o <<":">> \o DefaultPath,
              UsrBinDir \o <<":">> \o SiteDir \o <<":">> \o BinDir }
TabHomes == { HomeDir, SiteDir }

TabInit ==
  /\ fs = TabFs
  /\ mounts = InitMounts
  /\ commandStores = InitCommandStores
  /\ \E path \in TabPaths, home \in TabHomes :
       env = ("PATH" :> path) @@ ("HOME" :> home) @@ ("USER" :> UserName)
  /\ cwd = (IF EnvGet(env, "HOME") # <<>> THEN env["HOME"] ELSE RootDir)
  /\ inputBuffer = <<>>
  /\ loadedCommands = <<>>
  /\ history = <<>>
  /\ historyIndex = -1
  /\ savedInput = <<>>
  /\ escapeBuffer = <<>>
  /\ tasks = <<>>
  /\ chunkOpen = FALSE
  /\ loaderCalls = <<>>
  /\ written = <<>>
  /\ inputConsumers = 0

TabBytes == {"l", "s", "c", "a", "t", "b", "x", "i", "n", "e", ".", "/", " ", TAB, DEL}
TabLines == { <<"l", "s", " ", "/", "s", "i">>,
              <<"l", "s", " ", "/", "x">>,
              <<"l", "s", " ", "i", "n">>,
              <<"l", "s", " ", ".", ".", "/", "s", "i">>,
              <<"c", "a", "t", " ", "/", "s", "i", "t", "e", "/", "i", "n">>,
              <<"a">>, <<"x">>, <<" ", "a">>, <<"b", " ">> }

TabInput ==
  \E char \in TabBytes :
    /\ TypesAlong(char, TabLines)
    /\ HandleInput(char, FALSE)

TabNext == TabInput

SpecTab == TabInit /\ [][TabNext]_vars

\* SpecParse: the parser on every line of up to MaxLine characters over the
\* characters it distinguishes, and on a few longer lines.  A session starts
\* with the line typed, its last character just echoed, and Enter submits it.
ParseChars == {"|", ";", "&", "<", ">", Backquote, "$", "(", "'", "\"", "\\", "a", " "}
ParseLongLines ==
  { <<"a", " ", "\"", "a", "|", "b", "\"">>,
    <<"a", " ", "'", "&", "&", "'">>,
    <<"a", " ", "\"", "$", "(", "\"">>,
    <<"a", " ", "|", "|", " ", "a">>,
    <<"a", " ", "$", "a", " ", "|">>,
    <<"a", " ", "\"", "\\", "n", "\"">>,
    <<"a", " ", "'", "\\", "n", "'">>,
    <<"a", " ", "\"", "a", " ", "a", "\"", " ", "'", "a", "'">>,
    <<"a", " ", " ", "'", "'", " ", "a", "\"", "a", "\"", "'", "a", "'">> }
    \cup { <<"\"", "\\", c, "\"">> : c \in ParseChars \cup {"n", "t", "r"} }
ParseLines == UNION { [1..n -> ParseChars] : n \in 1..MaxLine } \cup ParseLongLines

ParseInit ==
  /\ fs = InitFs
  /\ mounts = InitMounts
  /\ commandStores = InitCommandStores
  /\ env = InitEnv(DefaultPath)
  /\ cwd = (IF EnvGet(env, "HOME") # <<>> THEN env["HOME"] ELSE RootDir)
  /\ inputBuffer \in ParseLines
  /\ loadedCommands = <<>>
  /\ history = <<>>
  /\ historyIndex = -1
  /\ savedInput = <<>>
  /\ escapeBuffer = <<>>
  /\ tasks = <<>>
  /\ chunkOpen = FALSE
  /\ loaderCalls = <<>>
  /\ written = <<Write("stdout", <<inputBuffer[Len(inputBuffer)]>>)>>
  /\ inputConsumers = 0

ParseInput ==
  \E char \in {CR, LF} :
    /\ TypesAlong(char, ParseLines)
    /\ HandleInput(char, FALSE)

ParseNext == ParseInput \/ Loaded \/ Resolved \/ Returned \/ Settled

SpecParse == ParseInit /\ [][ParseNext]_vars

(***************************************************************************)
(* The cd command (src/src/commands/cd.ts) and SpecCd: a session over the  *)
(* directories of the command tests in which only cd lines are submitted.  *)
(***************************************************************************)
CdName == <<"c", "d">>
CdEntry == DirectEntry("bin/cd")
CdCommands == (CdName :> CdEntry)
Docs == <<"d", "o", "c", "s">>
FileName == <<"f">>
DocsDir == HomeDir \o <<"/">> \o Docs

CdFs ==
  [p \in {RootDir, BinDir, HomeParent, HomeDir, DocsDir} |-> "dir"]
    @@ [p \in {HomeDir \o <<"/">> \o FileName} |-> "file"]
    @@ BinFSFiles(BinDir, CdCommands)

\* ctx.fs.statSync(path): "dir", "file", or "ENOENT" when it throws
statSync(files, path) ==
  IF normalizePath(path) \in DOMAIN files THEN files[normalizePath(path)] ELSE "ENOENT"

\* a setter that leaves PWD alone
setCwdKeepsPwd(e, path) == e

\* the cwd setter's effect on the environment: env.set('PWD', path)
setCwd(e, path) == MapSet(e, "PWD", path)

\* a failure that overwrites OLDPWD first
cdFailsAfterSaving(e, dir, text) ==
  [code |-> 1, stderr |-> <<Write("stderr", text)>>, env |-> MapSet(e, "OLDPWD", dir), cwd |-> dir]

\* cd reports text and returns 1
cdFails(e, dir, text) ==
  [code |-> 1, stderr |-> <<Write("stderr", text)>>, env |-> e, cwd |-> dir]

\* a change of directory that does not save the one it leaves
cdChangesKeepsOldPwd(e, dir, newPath) ==
  [code |-> 0, stderr |-> <<>>, env |-> setCwd(e, newPath), cwd |-> newPath]

\* cd saves the old directory, changes to newPath and returns 0
cdChanges(e, dir, newPath) ==
  [code |-> 0, stderr |-> <<>>, env |-> setCwd(MapSet(e, "OLDPWD", dir), newPath), cwd |-> newPath]

\* the body of cd for the arguments args in the environment e and the
\* working directory dir of its context: the code it returns, what it wrote
\* to stderr, and the environment and working directory it leaves
cd(args, e, dir) ==
  LET home == IF EnvGet(e, "HOME") # <<>> THEN e["HOME"] ELSE <<"/">>
      target == IF args # <<>> /\ args[1] # <<>> THEN args[1] ELSE home
      oldPwd == EnvGet(e, "OLDPWD")
      newPath == IF StartsWith(target, <<"/">>) THEN normalizePath(target)
                 ELSE IF target = <<"~">> THEN home
                 ELSE IF StartsWith(target, <<"~", "/">>)
                   THEN normalizePath(home \o SliceFrom(target, 1))
                 ELSE IF target = <<"-">> THEN oldPwd
                 ELSE normalizePath(dir \o <<"/">> \o target)
  IN IF target = <<"-">> /\ oldPwd = <<>>
       THEN cdFails(e, dir, <<"cd: ", "OLDPWD not set", CR, LF>>)
     ELSE IF statSync(fs, newPath) = "ENOENT"
       THEN cdFails(e, dir, <<"cd: ">> \o target \o <<": No such file or directory", CR, LF>>)
     ELSE IF statSync(fs, newPath) # "dir"
       THEN cdFails(e, dir, <<"cd: ">> \o target \o <<": Not a directory", CR, LF>>)
     ELSE cdChanges(e, dir, newPath)

\* executeCommand resumes after resolveCommand returned cd: it builds the
\* context and calls the body, which returns its exit code at once
CdRuns(i) ==
  /\ ~chunkOpen
  /\ i \in 1..Len(tasks)
  /\ tasks[i].pc = "resolved"
  /\ tasks[i].fn = CdEntry
  /\ LET r == cd(tasks[i].args, env, cwd) IN
     /\ env' = r.env
     /\ cwd' = r.cwd
     /\ written' = r.stderr
     /\ tasks' = [tasks EXCEPT ![i].pc = "returned", ![i].code = <<r.code>>]
  /\ UNCHANGED <<loadedCommands, loaderCalls, chunkOpen>>
  /\ UNCHANGED <<configVars, inputConsumers>>
  /\ UNCHANGED inputVars

CdBody == \E i \in 1..Len(tasks) : CdRuns(i)

\* the environments a session is constructed with: the default one, one whose
\* HOME ends in a slash, and one without HOME
CdEnvs ==
  { InitEnv(DefaultPath),
    ("PATH" :> DefaultPath) @@ ("HOME" :> HomeDir \o <<"/">>) @@ ("USER" :> UserName),
    ("PATH" :> DefaultPath) @@ ("USER" :> UserName) }

CdInit ==
  /\ fs = CdFs
  /\ mounts = (RootDir :> "inmemory") @@ (BinDir :> "binfs1")
  /\ commandStores = ("binfs1" :> CdCommands)
  /\ env \in CdEnvs
  /\ cwd = (IF EnvGet(env, "HOME") # <<>> THEN env["HOME"] ELSE RootDir)
  /\ inputBuffer = <<>>
  /\ loadedCommands = <<>>
  /\ history = <<>>
  /\ historyIndex = -1
  /\ savedInput = <<>>
  /\ escapeBuffer = <<>>
  /\ tasks = <<>>
  /\ chunkOpen = FALSE
  /\ loaderCalls = <<>>
  /\ written = <<>>
  /\ inputConsumers = 0

CdBytes == {"c", "d", " ", "~", "/", "-", ".", "o", "s", "f", CR}
CdLines ==
  { CdName,
    CdName \o <<" ", "~">>,
    CdName \o <<" ", "~", "/">> \o Docs,
    CdName \o <<" ", "-">>,
    CdName \o <<" ", ".", ".">>,
    CdName \o <<" ", "/">>,
    CdName \o <<" ">> \o FileName }

\* the bytes typed along the cd lines; Enter only on a whole line
CdInput ==
  \E char \in CdBytes :
    /\ TypesAlong(char, CdLines)
    /\ char = CR => inputBuffer \in CdLines
    /\ HandleInput(char, FALSE)
    /\ Len(history') <= CdMaxHist

CdNext == CdInput \/ CdBody \/ Returned

SpecCd == CdInit /\ [][CdNext]_vars

\* SpecPath: the same sessions with Tab completion, along the two lines that
\* move through every directory
PathBytes == {"c", "d", " ", "~", "/", ".", "o", "s", CR, TAB}
PathLines ==
  { CdName \o <<" ", ".", ".">>,
    CdName \o <<" ", "~", "/">> \o Docs }

PathInput ==
  \E char \in PathBytes :
    /\ TypesAlong(char, PathLines)
    /\ char = CR => inputBuffer \in PathLines
    /\ HandleInput(char, FALSE)
    /\ Len(history') <= CdMaxHist

PathNext == PathInput \/ CdBody \/ Returned

SpecPath == CdInit /\ [][PathNext]_vars

(***************************************************************************)
(* The mkdir command (commands/mkdir.ts) and SpecRegistry: a session in    *)
(* which mkdir lines are submitted while further command registries are    *)
(* created and mounted.                                                    *)
(***************************************************************************)
MkdirName == <<"m", "k", "d", "i", "r">>
OptDir == <<"/", "o", "p", "t">>
RegCommands == (MkdirName :> DirectEntry("bin/mkdir")) @@ (NameA :> LazyEntry("bin/a"))
OptCommands == (NameA :> DirectEntry("opt/a"))

\* the directories fs.mkdirSync(path, {recursive: true}) looks at: path and
\* the directories above it, the root excepted
Ancestors(path) ==
  { <<"/">> \o Join(SubSeq(Segments(path), 1, k), <<"/">>) : k \in 1..Len(Segments(path)) }

\* whether mkdirSync throws: something on the way is a file
mkdirThrows(files, path) ==
  \E p \in Ancestors(path) : p \in DOMAIN files /\ files[p] = "file"

\* the filesystem after a mkdirSync that returned
mkdirSync(files, path) == files @@ [p \in Ancestors(path) \ DOMAIN files |-> "dir"]

MkdirFailureText(arg) ==
  <<"mkdir: cannot create directory '">> \o arg \o <<"': ", "err", CR, LF>>

\* the loop of mkdir from its k-th argument; r is the exit code, the stderr
\* writes and the filesystem so far
RECURSIVE mkdirFrom(_, _, _, _, _)
mkdirFrom(args, k, e, dir, r) ==
  IF k > Len(args) THEN r
  ELSE
    LET arg == args[k]
        home == IF EnvGet(e, "HOME") # <<>> THEN e["HOME"] ELSE <<"/">>
        path == normalizePath(
                  IF StartsWith(arg, <<"/">>) THEN arg
                  ELSE IF arg = <<"~">> THEN home
                  ELSE IF StartsWith(arg, <<"~", "/">>) THEN home \o SliceFrom(arg, 1)
                  ELSE IF dir = <<"/">> THEN <<"/">> \o arg
                  ELSE dir \o <<"/">> \o arg)
    IN IF mkdirThrows(r.fs, path)
       THEN mkdirFrom(args, k + 1, e, dir,
                      [code |-> 1,
                       stderr |-> Append(r.stderr, Write("stderr", MkdirFailureText(arg))),
                       fs |-> r.fs])
       ELSE mkdirFrom(args, k + 1, e, dir, [r EXCEPT !.fs = mkdirSync(r.fs, path)])

\* the body of mkdir
mkdir(args, e, dir, files) ==
  IF Len(args) = 0
  THEN [code |-> 1, stderr |-> <<Write("stderr", <<"mkdir: missing operand", CR, LF>>)>>,
        fs |-> files]
  ELSE mkdirFrom(args, 1, e, dir, [code |-> 0, stderr |-> <<>>, fs |-> files])

\* executeCommand resumes after resolveCommand returned mkdir and calls it
MkdirRuns(i) ==
  /\ ~chunkOpen
  /\ i \in 1..Len(tasks)
  /\ tasks[i].pc = "resolved"
  /\ tasks[i].fn = DirectEntry("bin/mkdir")
  /\ LET r == mkdir(tasks[i].args, env, cwd, fs) IN
     /\ fs' = r.fs
     /\ written' = r.stderr
     /\ tasks' = [tasks EXCEPT ![i].pc = "returned", ![i].code = <<r.code>>]
  /\ UNCHANGED <<mounts, commandStores, inputConsumers>>
  /\ UNCHANGED <<env, cwd, loadedCommands, loaderCalls, chunkOpen>>
  /\ UNCHANGED inputVars

MkdirBody == \E i \in 1..Len(tasks) : MkdirRuns(i)

\* the handles of the filesystems there can be
Handles == {"inmemory", "binfs1", "binfs2", "binfs3"}

\* BinFS.create
BinFSCreate(handle, commands) ==
  /\ handle \in Handles \ DOMAIN commandStores
  /\ commandStores' = commandStores @@ (handle :> commands)

\* a handle BinFS.create has not returned yet
FreshHandle == CHOOSE h \in Handles \ ({"inmemory"} \cup DOMAIN commandStores) : TRUE

\* a registry of commands is created and mounted at point
Mounts(point, commands) ==
  /\ point \notin DOMAIN mounts
  /\ Handles \ ({"inmemory"} \cup DOMAIN commandStores) # {}
  /\ BinFSCreate(FreshHandle, commands)
  /\ mounts' = mounts @@ (point :> FreshHandle)
  /\ fs' = BinFSFiles(point, commands) @@ fs @@ [p \in Ancestors(point) |-> "dir"]
  /\ written' = <<>>
  /\ UNCHANGED execVars
  /\ UNCHANGED inputVars
  /\ UNCHANGED <<chunkOpen, inputConsumers>>

RegInit ==
  /\ fs = [p \in {RootDir, BinDir, HomeParent, HomeDir} |-> "dir"]
            @@ BinFSFiles(BinDir, RegCommands)
  /\ mounts = (RootDir :> "inmemory") @@ (BinDir :> "binfs1")
  /\ commandStores = ("binfs1" :> RegCommands)
  /\ env = InitEnv(DefaultPath)
  /\ cwd = (IF EnvGet(env, "HOME") # <<>> THEN env["HOME"] ELSE RootDir)
  /\ inputBuffer = <<>>
  /\ loadedCommands = <<>>
  /\ history = <<>>
  /\ historyIndex = -1
  /\ savedInput = <<>>
  /\ escapeBuffer = <<>>
  /\ tasks = <<>>
  /\ chunkOpen = FALSE
  /\ loaderCalls = <<>>
  /\ written = <<>>
  /\ inputConsumers = 0

RegBytes == {"m", "k", "d", "i", "r", " ", "/", "b", "n", "x", CR}
RegLines ==
  { MkdirName,
    MkdirName \o <<" ", "x">>,
    MkdirName \o <<" ">> \o BinDir \o <<"/", "x">>,
    MkdirName \o <<" ">> \o BinDir \o <<"/">> \o MkdirName \o <<"/", "x">> }

\* the bytes typed along the mkdir lines; Enter only on a whole line
RegInput ==
  \E char \in RegBytes :
    /\ TypesAlong(char, RegLines)
    /\ char = CR => inputBuffer \in RegLines
    /\ HandleInput(char, FALSE)
    /\ Len(history') <= RegMaxHist

\* the registries an embedder mounts during the session
Mounted ==
  \E point \in {UsrBinDir, OptDir} :
    /\ ~MicrotaskPending
    /\ Mounts(point, IF point = UsrBinDir THEN UsrBinCommands ELSE OptCommands)

RegNext == RegInput \/ MkdirBody \/ Returned \/ Mounted

SpecRegistry == RegInit /\ [][RegNext]_vars

(***************************************************************************)
(* The open and emacs commands (src/src/commands/open.ts, emacs.ts) and    *)
(* SpecHost: a session in which they run in contexts with and without the  *)
(* host's callbacks.  A call of a callback is recorded in written as a     *)
(* write on the sink of the callback's name.                               *)
(***************************************************************************)
OpenName == <<"o", "p", "e", "n">>
EmacsName == <<"e", "m", "a", "c", "s">>
HostCommands == (OpenName :> DirectEntry("bin/open")) @@ (EmacsName :> DirectEntry("bin/emacs"))
SitePath == <<"/", "s", "i", "t", "e">>
MdSuffix == <<".", "m", "d">>
PageMd == <<"p">> \o MdSuffix
WwwUrl == <<"w", "w", "w", ".", "a">>

\* a command that calls the callback whether the context has it or not
hostCallUnchecked(present, callback, arg, text) ==
  [code |-> 0, out |-> <<Write(callback, arg)>>]

\* if (ctx.onX) { ctx.onX(arg); return 0 } else { stderr.write(text); return 1 }
hostCall(present, callback, arg, text) ==
  IF present THEN [code |-> 0, out |-> <<Write(callback, arg)>>]
  ELSE [code |-> 1, out |-> <<Write("stderr", text)>>]

\* the path a command makes of its argument before it normalizes it
argPath(arg, e, dir) ==
  LET home == IF EnvGet(e, "HOME") # <<>> THEN e["HOME"] ELSE <<"/">>
  IN IF StartsWith(arg, <<"/">>) THEN arg
     ELSE IF arg = <<"~">> THEN home
     ELSE IF StartsWith(arg, <<"~", "/">>) THEN home \o SliceFrom(arg, 1)
     ELSE IF dir = <<"/">> THEN <<"/">> \o arg
     ELSE dir \o <<"/">> \o arg

\* open: the URL of a file path
openUrl(path) ==
  LET unsited == IF StartsWith(path, SitePath) THEN SliceFrom(path, 5) ELSE path
      bare == IF Len(unsited) >= 3 /\ SubSeq(unsited, Len(unsited) - 2, Len(unsited)) = MdSuffix
              THEN SubSeq(unsited, 1, Len(unsited) - 3) ELSE unsited
  IN IF StartsWith(bare, <<"/">>) THEN bare ELSE <<"/">> \o bare

\* the body of open in a context that has onOpen or not
open(args, e, dir, files, onOpen) ==
  LET arg == args[1]
      path == normalizePath(argPath(arg, e, dir))
      unavailable == <<"open: browser not available", CR, LF>>
  IN IF Len(args) = 0
       THEN [code |-> 1, out |-> <<Write("stderr", <<"open: missing file or URL operand", CR, LF>>)>>]
     ELSE IF \/ StartsWith(arg, <<"h", "t", "t", "p", ":", "/", "/">>)
             \/ StartsWith(arg, <<"h", "t", "t", "p", "s", ":", "/", "/">>)
             \/ StartsWith(arg, <<"w", "w", "w", ".">>)
       THEN hostCall(onOpen, "onOpen", arg, unavailable)
     ELSE IF statSync(files, path) = "ENOENT"
       THEN [code |-> 1, out |-> <<Write("stderr", <<"open: ">> \o arg
                                     \o <<": No such file or directory", CR, LF>>)>>]
     ELSE IF statSync(files, path) = "dir"
       THEN [code |-> 1, out |-> <<Write("stderr", <<"open: ">> \o arg
                                     \o <<": Is a directory", CR, LF>>)>>]
     ELSE hostCall(onOpen, "onOpen", openUrl(path), unavailable)

\* the body of emacs in a context that has onEmacs or not
emacs(args, e, dir, onEmacs) ==
  LET unavailable == <<"emacs: editor not available", CR, LF>>
  IN IF Len(args) = 0 \/ args[1] = <<>>
     THEN hostCall(onEmacs, "onEmacs", <<>>, unavailable)
     ELSE hostCall(onEmacs, "onEmacs", normalizePath(argPath(args[1], e, dir)), unavailable)

\* executeCommand resumes after resolveCommand returned open or emacs and
\* calls it; present tells whether the context has the command's callback
HostRuns(i, present) ==
  /\ ~chunkOpen
  /\ i \in 1..Len(tasks)
  /\ tasks[i].pc = "resolved"
  /\ tasks[i].fn \in {DirectEntry("bin/open"), DirectEntry("bin/emacs")}
  /\ LET r == IF tasks[i].fn = DirectEntry("bin/open")
              THEN open(tasks[i].args, env, cwd, fs, present)
              ELSE emacs(tasks[i].args, env, cwd, present)
     IN /\ written' = r.out
        /\ tasks' = [tasks EXCEPT ![i].pc = "returned", ![i].code = <<r.code>>]
  /\ UNCHANGED <<configVars, inputConsumers>>
  /\ UNCHANGED <<env, cwd, loadedCommands, loaderCalls, chunkOpen>>
  /\ UNCHANGED inputVars

HostBody == \E i \in 1..Len(tasks), present \in BOOLEAN : HostRuns(i, present)

HostInit ==
  /\ fs = [p \in {RootDir, BinDir, HomeParent, HomeDir, SitePath} |-> "dir"]
            @@ [p \in {SitePath \o <<"/">> \o PageMd, HomeDir \o <<"/">> \o PageMd} |-> "file"]
            @@ BinFSFiles(BinDir, HostCommands)
  /\ mounts = (RootDir :> "inmemory") @@ (BinDir :> "binfs1")
  /\ commandStores = ("binfs1" :> HostCommands)
  /\ env = InitEnv(DefaultPath)
  /\ cwd = (IF EnvGet(env, "HOME") # <<>> THEN env["HOME"] ELSE RootDir)
  /\ inputBuffer = <<>>
  /\ loadedCommands = <<>>
  /\ history = <<>>
  /\ historyIndex = -1
  /\ savedInput = <<>>
  /\ escapeBuffer = <<>>
  /\ tasks = <<>>
  /\ chunkOpen = FALSE
  /\ loaderCalls = <<>>
  /\ written = <<>>
  /\ inputConsumers = 0

HostBytes == {"o", "p", "e", "n", "m", "a", "c", "s", "w", ".", "/", "i", "t", "d", "x", " ", CR}
HostLines ==
  { OpenName,
    OpenName \o <<" ">> \o WwwUrl,
    OpenName \o <<" ">> \o PageMd,
    OpenName \o <<" ">> \o SitePath \o <<"/">> \o PageMd,
    OpenName \o <<" ", "x">>,
    OpenName \o <<" ", ".">>,
    EmacsName,
    EmacsName \o <<" ">> \o PageMd }

\* the bytes typed along the lines; Enter only on a whole line
HostInput ==
  \E char \in HostBytes :
    /\ TypesAlong(char, HostLines)
    /\ char = CR => inputBuffer \in HostLines
    /\ HandleInput(char, FALSE)
    /\ Len(history') <= HostMaxHist

HostNext == HostInput \/ HostBody \/ Returned

SpecHost == HostInit /\ [][HostNext]_vars

(***************************************************************************)
(* Shell.start and SpecStart: a session whose host calls start() once and  *)
(* whose bytes arrive through the consumer start() registers.  The home    *)
(* directory may hold a login profile with the one line 'a'.               *)
(***************************************************************************)
ProfilePath == HomeDir \o <<"/", ".", "p", "r", "o", "f", "i", "l", "e">>
ProfileLines == <<NameA>>

\* Shell.printWelcome
printWelcome ==
  << Write("stdout", <<"Welcome to Web Shell!", CR, LF>>),
     Write("stdout", <<CR, LF>>),
     Write("stdout", <<"Type \"help\" for available commands.", CR, LF>>),
     Write("stdout", <<CR, LF>>) >>

\* Shell.start: banner, prompt, onInputCallback(consumer)
start ==
  /\ inputConsumers = 0
  /\ written' = printWelcome \o <<printPrompt(env, cwd)>>
  /\ inputConsumers' = inputConsumers + 1
  /\ UNCHANGED <<configVars, inputVars, execVars, chunkOpen>>

StartInit ==
  /\ \E profile \in BOOLEAN :
       fs = (IF profile THEN (ProfilePath :> "file") ELSE <<>>) @@ InitFs
  /\ mounts = InitMounts
  /\ commandStores = InitCommandStores
  /\ env = InitEnv(DefaultPath)
  /\ cwd = (IF EnvGet(env, "HOME") # <<>> THEN env["HOME"] ELSE RootDir)
  /\ inputBuffer = <<>>
  /\ loadedCommands = <<>>
  /\ history = <<>>
  /\ historyIndex = -1
  /\ savedInput = <<>>
  /\ escapeBuffer = <<>>
  /\ tasks = <<>>
  /\ chunkOpen = FALSE
  /\ loaderCalls = <<>>
  /\ written = <<>>
  /\ inputConsumers = 0

\* the registered consumer is handed a byte
StartInput ==
  \E char \in ExecBytes :
    /\ inputConsumers > 0
    /\ TypesAlong(char, ExecLines)
    /\ HandleInput(char, FALSE)
    /\ WithinBounds(MaxHist, MaxTasks, MaxLoads)'

StartNext == start \/ StartInput \/ Loaded \/ Resolved \/ Returned \/ Settled

SpecStart == StartInit /\ [][StartNext]_vars

(***************************************************************************)
(* SpecEmbed: a caller that invokes executeCommand(line) itself, as the    *)
(* completion tests do, beside a user who types, submits, and recalls.     *)
(***************************************************************************)
EmbedLines == { <<>>, <<"a">>, <<"b">>, <<"x">>, <<"'">> }
EmbedBytes == {"x", ESC, "[", "A", CR}
EmbedDrafts == { <<"x">> }

\* shell.executeCommand(line), called between two chunks of input
executeCommandCalled(line) ==
  /\ ~chunkOpen
  /\ ~MicrotaskPending
  /\ executeCommand(line, <<>>)
  /\ UNCHANGED <<configVars, inputConsumers>>
  /\ UNCHANGED inputVars
  /\ UNCHANGED chunkOpen

Called ==
  \E line \in EmbedLines :
    /\ executeCommandCalled(line)
    /\ WithinBounds(MaxHist, MaxTasks, MaxLoads)'

EmbedInput ==
  \E char \in EmbedBytes :
    /\ TypesAlong(char, EmbedDrafts)
    /\ HandleInput(char, FALSE)
    /\ WithinBounds(MaxHist, MaxTasks, MaxLoads)'

EmbedNext == Called \/ EmbedInput \/ Loaded \/ Resolved \/ Returned \/ Settled

SpecEmbed == NavInit /\ [][EmbedNext]_vars

(***************************************************************************)
(* SpecKinds: a registry that also holds a command declared without        *)
(* parameters and a loader declared with one, both of which the type       *)
(* CommandEntry admits.                                                    *)
(***************************************************************************)
NameC == <<"c">>
NameL == <<"l">>
\* ['c', () => 2] and ['l', async (unused) => fn]
NoParamCommand == [kind |-> "command", length |-> 0, id |-> "bin/c", call |-> 0]
OneParamLoader == [kind |-> "loader", length |-> 1, id |-> "bin/l", call |-> 0]
KindCommands ==
  (NameA :> LazyEntry("bin/a")) @@ (NameB :> DirectEntry("bin/b"))
    @@ (NameC :> NoParamCommand) @@ (NameL :> OneParamLoader)

\* what a command returned when it was called as a loader: not callable
ReturnedValue(entry, call) == [kind |-> "number", length |-> 0, id |-> entry.id, call |-> call]
\* String(exitCode) of a function
FunctionText == <<"async (ctx) => ...">>

\* resolveCommand resumes after 'await entry()' where entry is a command: it
\* caches and returns the value the command returned, undefined or a number
CommandAsLoader(i, code) ==
  /\ ~chunkOpen
  /\ tasks[i].pc = "loading"
  /\ LET loadedFn == IF code = NoCode THEN Null ELSE ReturnedValue(tasks[i].fn, tasks[i].call)
     IN /\ loadedCommands' = MapSet(loadedCommands, tasks[i].path, loadedFn)
        /\ tasks' = [tasks EXCEPT ![i].pc = "resolved", ![i].fn = loadedFn]
  /\ written' = <<>>
  /\ UNCHANGED <<env, cwd, loaderCalls, chunkOpen>>
  /\ UNCHANGED <<configVars, inputConsumers>>
  /\ UNCHANGED inputVars

KindsLoaded ==
  \E i \in 1..Len(tasks), ok \in BOOLEAN, code \in ExitCodes :
    IF tasks[i].fn.kind = "command" /\ ok
    THEN CommandAsLoader(i, code)
    ELSE LoaderSettles(i, ok)

\* executeCommand calls commandFn(ctx) where commandFn is a number (a
\* TypeError, caught) or a loader (a promise of a function)
NotACommand(i) ==
  /\ ~chunkOpen
  /\ tasks[i].pc = "resolved"
  /\ IF tasks[i].fn.kind = "number"
     THEN FinishThrown(i)
     ELSE /\ tasks' = [tasks EXCEPT ![i].pc = "running"]
          /\ written' = <<>>
          /\ UNCHANGED <<env, cwd, loadedCommands, loaderCalls>>
  /\ UNCHANGED chunkOpen
  /\ UNCHANGED <<configVars, inputConsumers>>
  /\ UNCHANGED inputVars

KindsResolved ==
  \E i \in 1..Len(tasks), outcome \in BodyOutcomes, code \in ExitCodes :
    IF tasks[i].fn.kind \in {"number", "loader"}
    THEN NotACommand(i)
    ELSE ResumeResolved(i, outcome, IF outcome = "return" THEN code ELSE NoCode)

\* the promise of a loader called as a command fulfils with a function, which
\* executeCommand stores as the exit code, or rejects
LoaderAsCommandSettles(i, ok) ==
  /\ ~chunkOpen
  /\ tasks[i].pc = "running"
  /\ IF ok
     THEN /\ env' = MapSet(env, "?", FunctionText)
          /\ tasks' = RemoveAt(tasks, i)
          /\ written' = <<printPrompt(env', cwd)>>
          /\ UNCHANGED <<cwd, loadedCommands, loaderCalls>>
     ELSE FinishThrown(i)
  /\ UNCHANGED chunkOpen
  /\ UNCHANGED <<configVars, inputConsumers>>
  /\ UNCHANGED inputVars

KindsSettled ==
  \E i \in 1..Len(tasks), ok \in BOOLEAN, code \in ExitCodes :
    IF tasks[i].fn.kind = "loader"
    THEN LoaderAsCommandSettles(i, ok)
    ELSE BodySettles(i, ok, IF ok THEN code ELSE NoCode)

KindsInit ==
  /\ fs = [p \in {RootDir, BinDir, HomeParent, HomeDir} |-> "dir"] @@ BinFSFiles(BinDir, KindCommands)
  /\ mounts = (RootDir :> "inmemory") @@ (BinDir :> "binfs1")
  /\ commandStores = ("binfs1" :> KindCommands)
  /\ env = InitEnv(DefaultPath)
  /\ cwd = (IF EnvGet(env, "HOME") # <<>> THEN env["HOME"] ELSE RootDir)
  /\ inputBuffer = <<>>
  /\ loadedCommands = <<>>
  /\ history = <<>>
  /\ historyIndex = -1
  /\ savedInput = <<>>
  /\ escapeBuffer = <<>>
  /\ tasks = <<>>
  /\ chunkOpen = FALSE
  /\ loaderCalls = <<>>
  /\ written = <<>>
  /\ inputConsumers = 0

KindsBytes == {"a", "b", "c", "l", CR}
KindsLines == { NameA, NameB, NameC, NameL }

KindsInput ==
  \E char \in KindsBytes :
    /\ TypesAlong(char, KindsLines)
    /\ HandleInput(char, FALSE)
    /\ WithinBounds(MaxHist, MaxTasks, MaxLoads)'

KindsNext == KindsInput \/ KindsLoaded \/ KindsResolved \/ Returned \/ KindsSettled

SpecKinds == KindsInit /\ [][KindsNext]_vars

\* SpecRecall: lines that fail in each of the four ways are submitted and
\* recalled with the Up arrow; b is a command whose body may throw or reject
RecallBytes == {"b", "x", ";", "'", ESC, "[", "A", CR}
RecallLines == { <<"b">>, <<"x">>, <<";">>, <<"'">> }

RecallInput ==
  \E char \in RecallBytes :
    /\ TypesAlong(char, RecallLines)
    /\ HandleInput(char, FALSE)
    /\ WithinBounds(MaxHist, MaxTasks, MaxLoads)'

RecallNext == RecallInput \/ Resolved \/ Returned \/ Settled

SpecRecall == NavInit /\ [][RecallNext]_vars

\* SpecResolve: PATH also names the home directory, which is no registry and
\* holds files called a and b, and /bin holds b without a table entry for it
ResolveFs ==
  [p \in {FullPath(HomeDir, NameA), FullPath(HomeDir, NameB)} |-> "file"]
    @@ (FullPath(BinDir, NameB) :> "dir") @@ InitFs
ResolvePaths ==
  { HomeDir \o <<":">> \o BinDir \o <<":">> \o UsrBinDir,
    BinDir \o <<":">> \o HomeDir \o <<":">> \o UsrBinDir,
    HomeDir \o <<":">> \o BinDir }

ResolveInit ==
  /\ fs = ResolveFs
  /\ mounts = InitMounts
  /\ commandStores = InitCommandStores
  /\ \E path \in ResolvePaths : env = InitEnv(path)
  /\ cwd = (IF EnvGet(env, "HOME") # <<>> THEN env["HOME"] ELSE RootDir)
  /\ inputBuffer = <<>>
  /\ loadedCommands = <<>>
  /\ history = <<>>
  /\ historyIndex = -1
  /\ savedInput = <<>>
  /\ escapeBuffer = <<>>
  /\ tasks = <<>>
  /\ chunkOpen = FALSE
  /\ loaderCalls = <<>>
  /\ written = <<>>
  /\ inputConsumers = 0

ResolveBytes == {"a", "b", "x", CR}
ResolveLines == { <<"a">>, <<"b">>, <<"x">> }

ResolveInput ==
  \E char \in ResolveBytes :
    /\ TypesAlong(char, ResolveLines)
    /\ HandleInput(char, FALSE)
    /\ WithinBounds(MaxHist, MaxTasks, MaxLoads)'

ResolveNext == ResolveInput \/ Loaded \/ Resolved \/ Returned \/ Settled

SpecResolve == ResolveInit /\ [][ResolveNext]_vars

\* SpecLive: Spec with every loader and every command body terminating: a
\* continuation that can run does run
SpecLive ==
  /\ Spec
  /\ WF_vars(Loaded) /\ WF_vars(Resolved) /\ WF_vars(Returned) /\ WF_vars(Settled)

(***************************************************************************)
(* Properties.  A statement about what a handler does in a state has the   *)
(* form  P => ~ENABLED (A /\ ~Q):  in every reachable state where P holds, *)
(* every step of the handler A ends in a state related to it by Q.         *)
(***************************************************************************)
\* a text written to the error sink that reports a command not found
IsNotFoundText(text) == \E k \in 1..Len(text) : text[k] = ": command not found"
NotFoundWritten ==
  \E k \in 1..Len(written) : written[k].sink = "stderr" /\ IsNotFoundText(written[k].text)

\* C1: at most one submitted line is mid-execution at any moment: while the
\* executeCommand of one line is suspended, no second line has started to
\* resolve or run its command.
C1_OneLineMidExecution ==
  \A i, j \in 1..Len(tasks) : i < j => tasks[i].pc \notin {"loading", "running"}

\* C2: the loader of a lazy entry is invoked at most once for its full path,
\* lines submitted while an earlier resolution is suspended included.
C2_LoaderInvokedOnce == \A p \in DOMAIN loaderCalls : loaderCalls[p] <= 1

\* C3: after a line whose command name resolves to nothing, the error sink
\* holds the command-not-found message and the variable ? holds 127.
C3_NotFoundSets127 == NotFoundWritten => EnvGet(env, "?") = <<"1", "2", "7">>

\* the decimal strings of the values a body returns here
DecimalOf(code) ==
  IF code = NoCode THEN <<"0">> ELSE IF code = <<2>> THEN <<"2">> ELSE <<"no such code">>

NoErrorWritten == \A k \in 1..Len(written') : written'[k].sink # "stderr"
ErrorWritten ==
  \E k \in 1..Len(written') : written'[k].sink = "stderr" /\ written'[k].text[1] = "Error: "

\* the call i of executeCommand has ended with a prompt and the line editor
\* is as it was
CallEnded(i) ==
  /\ tasks' = RemoveAt(tasks, i)
  /\ written' # <<>>
  /\ written'[Len(written')] = printPrompt(env', cwd')
  /\ UNCHANGED inputVars

ReturnedPost(i, code) ==
  EnvGet(env', "?") = DecimalOf(code) /\ NoErrorWritten /\ CallEnded(i)
ThrownPost(i) == EnvGet(env', "?") = <<"1">> /\ ErrorWritten /\ CallEnded(i)

\* C4: when the body of a resolved command finishes, ? is the decimal string
\* of the code it returned ("0" when it returned no value) and nothing goes to
\* the error sink; when it threw or its promise rejected, ? is "1" and a
\* message goes to the error sink; either way the call ends with a prompt and
\* leaves the line editor as it was.
C4_ExitCodeRecorded ==
  \A i \in 1..Len(tasks) :
    /\ tasks[i].pc = "returned" =>
         ~ENABLED (ResumeReturned(i) /\ ~ReturnedPost(i, tasks[i].code))
    /\ tasks[i].pc = "running" =>
         /\ \A code \in ExitCodes :
              ~ENABLED (BodySettles(i, TRUE, code) /\ ~ReturnedPost(i, code))
         /\ ~ENABLED (BodySettles(i, FALSE, NoCode) /\ ~ThrownPost(i))
    /\ (tasks[i].pc = "resolved" /\ tasks[i].fn # Null) =>
         ~ENABLED (ResumeResolved(i, "throw", NoCode) /\ ~ThrownPost(i))

\* a body returned 2 and the call has ended
C4_Witness ==
  /\ EnvGet(env, "?") = <<"2">>
  /\ tasks = <<>>
  /\ written = <<printPrompt(env, cwd)>>

\* the step takes Enter on the draft line
SubmitsDraft(line) ==
  /\ escapeBuffer = <<>>
  /\ inputBuffer = line
  /\ inputBuffer' = <<>>
  /\ written' # <<>>
  /\ written'[1] = Write("stdout", <<CR, LF>>)

StderrWrites == { k \in 1..Len(written) : written[k].sink = "stderr" }

\* a failure message ends with CR LF and exactly one prompt follows it, the
\* last write of the step; the handler then takes the next typed byte as soon
\* as the pending continuations have run
FailureReported ==
  \A k \in StderrWrites :
    LET text == written[k].text IN
    /\ Len(text) >= 2 /\ text[Len(text) - 1] = CR /\ text[Len(text)] = LF
    /\ k + 1 = Len(written)
    /\ written[k + 1] = printPrompt(env, cwd)
    /\ Cardinality({ j \in 1..Len(written) : written[j] = printPrompt(env, cwd) }) = 1
    /\ \A char \in ExecBytes \ {CR} : MicrotaskPending \/ ENABLED HandleInput(char, FALSE)

\* Enter on a draft naming a command, in the state a failure left, starts it
NextLineRuns ==
  (StderrWrites # {} /\ SubmitsDraft(NameB)) =>
    /\ Len(tasks') = Len(tasks) + 1
    /\ tasks'[Len(tasks')].name = NameB
    /\ tasks'[Len(tasks')].fn = UsrBinCommands[NameB]

C6_FirstHitWins ==
  LET binFirst == StartsWith(EnvGet(env, "PATH"), BinDir \o <<":">>)
      firstPath == IF binFirst THEN FullPath(BinDir, NameA) ELSE FullPath(UsrBinDir, NameA)
      firstEntry == IF binFirst THEN BinCommands[NameA] ELSE UsrBinCommands[NameA]
      paths == { FullPath(BinDir, NameA), FullPath(UsrBinDir, NameA) }
      caches == UNION { [S -> { LoadedFn(BinCommands[NameA], 1), LoadedFn(UsrBinCommands[NameA], 1) }] :
                          S \in SUBSET paths }
  IN
  /\ \A cache \in caches \cup {loadedCommands} :
       LET r == ResolveFrom(PathDirs(env), 1, NameA, cache) IN
       IF firstPath \in DOMAIN cache
       THEN r = [status |-> "return", fn |-> cache[firstPath]]
       ELSE r = [status |-> "await", path |-> firstPath, entry |-> firstEntry]
  /\ \A i \in 1..Len(tasks) : tasks[i].name = NameA =>
       /\ tasks[i].fn.id = firstEntry.id
       /\ tasks[i].pc = "loading" => tasks[i].path = firstPath

\* with /usr/bin first in PATH, a second line naming the command was resolved
\* from the cache
C6_Witness ==
  /\ StartsWith(EnvGet(env, "PATH"), UsrBinDir \o <<":">>)
  /\ FullPath(UsrBinDir, NameA) \in DOMAIN loadedCommands
  /\ \E i \in 1..Len(tasks) :
       /\ tasks[i].name = NameA
       /\ tasks[i].pc = "resolved"
       /\ tasks[i].path = <<>>
       /\ tasks[i].fn = loadedCommands[FullPath(UsrBinDir, NameA)]

\* the step takes Enter: it writes CR LF first, then at most a message and a prompt
SubmitStep ==
  /\ escapeBuffer = <<>>
  /\ inputBuffer' = <<>>
  /\ written' # <<>>
  /\ written'[1] = Write("stdout", <<CR, LF>>)
  /\ Len(written') <= 3

\* line is buffer without its leading and trailing white space
IsTrimOf(line, buffer) ==
  \E i \in 1..(Len(buffer) + 1), j \in 0..Len(buffer) :
    /\ line = SubSeq(buffer, i, j)
    /\ \A k \in 1..(i - 1) : IsSpace(buffer[k])
    /\ \A k \in (j + 1)..Len(buffer) : IsSpace(buffer[k])
    /\ line # <<>> => ~IsSpace(line[1]) /\ ~IsSpace(line[Len(line)])

HistoryWellFormed ==
  /\ \A i \in 1..Len(history) :
       /\ history[i] # <<>>
       /\ ~IsSpace(history[i][1])
       /\ ~IsSpace(history[i][Len(history[i])])
  /\ \A i \in 1..(Len(history) - 1) : history[i] # history[i + 1]

HistoryStep ==
  IF SubmitStep
  THEN \E line \in { SubSeq(inputBuffer, i, j) : i \in 1..(Len(inputBuffer) + 1),
                                                  j \in 0..Len(inputBuffer) } :
         /\ IsTrimOf(line, inputBuffer)
         /\ history' = IF line # <<>> /\ (history = <<>> \/ history[Len(history)] # line)
                       THEN Append(history, line) ELSE history
  ELSE history' = history

\* C7: the history only grows, by appending the trimmed line of an Enter when
\* that line is not empty and differs from the newest entry, so every entry is
\* a non-empty trimmed line and no two adjacent entries are equal; a line equal
\* to an older entry that is not the newest is appended again.
C7_HistoryAppendOnly == []HistoryWellFormed /\ [][HistoryStep]_vars

\* a line was appended again after another line
C7_Witness == Len(history) = 3 /\ history[1] = history[3]

\* the last write of the step shows entry
Shows(entry) == written' # <<>> /\ written'[Len(written')] = Write("stdout", entry)

UpPost ==
  /\ history' = history
  /\ IF history = <<>> \/ historyIndex = 0
     THEN UNCHANGED <<inputBuffer, historyIndex, savedInput>> /\ written' = <<>>
     ELSE IF historyIndex = -1
     THEN /\ savedInput' = inputBuffer
          /\ historyIndex' = Len(history) - 1
          /\ inputBuffer' = history[Len(history)]
          /\ Shows(history[Len(history)])
     ELSE /\ savedInput' = savedInput
          /\ historyIndex' = historyIndex - 1
          /\ inputBuffer' = history[historyIndex]
          /\ Shows(history[historyIndex])

\* C8: the byte that completes ESC [ A: when not navigating with a history, it
\* saves the draft and shows the newest entry; when navigating, it moves one
\* entry older and shows it; at the oldest entry, or with no history, it
\* changes neither cursor, draft, saved draft nor output.
C8_UpArrow ==
  escapeBuffer = <<ESC, "[">> => ~ENABLED (HandleInput("A", FALSE) /\ ~UpPost)

\* Up-arrows have walked from a non-empty draft to the oldest of several entries
C8_Witness ==
  /\ Len(history) >= 2
  /\ historyIndex = 0
  /\ inputBuffer = history[1]
  /\ savedInput # <<>>
  /\ written # <<>>
  /\ written[Len(written)] = Write("stdout", history[1])

RECURSIVE Ups(_, _, _)
Ups(h, s, k) == IF k = 0 THEN s ELSE Ups(h, UpState(h, s).state, k - 1)
RECURSIVE Downs(_, _, _)
Downs(h, s, k) == IF k = 0 THEN s ELSE Downs(h, DownState(h, s).state, k - 1)
MaxUps == NavMaxHist + 2

\* C9: from a state that is not navigating, with a draft d and n >= 1 entries,
\* k Up-arrows then min(k, n) Down-arrows leave the draft d and the cursor not
\* navigating; a Down-arrow while not navigating changes nothing and writes
\* nothing.
C9_RoundTrip ==
  historyIndex = -1 =>
    /\ Len(history) >= 1 =>
         \A k \in 1..MaxUps :
           LET n == Len(history)
               back == Downs(history, Ups(history, NavState, k), IF k < n THEN k ELSE n)
           IN back.buffer = inputBuffer /\ back.index = -1
    /\ escapeBuffer = <<ESC, "[">> =>
         ~ENABLED (/\ HandleInput("B", FALSE)
                   /\ ~(/\ UNCHANGED <<inputBuffer, history, historyIndex, savedInput>>
                        /\ written' = <<>>))

\* a Down-arrow has just restored a non-empty draft
C9_Witness ==
  /\ historyIndex = -1
  /\ history # <<>>
  /\ savedInput # <<>>
  /\ inputBuffer = savedInput
  /\ written = ReplaceWrites(history[Len(history)], savedInput)

\* the bytes an escape sequence may hold
EscapeBytes == NavBytes \cup {BS}

\* the step changes nothing but the escape buffer and writes nothing
Quiet ==
  /\ written' = <<>>
  /\ UNCHANGED <<inputBuffer, history, historyIndex, savedInput>>
  /\ UNCHANGED execVars

\* the step only navigates the history
NavigatesOnly ==
  /\ inputBuffer' \in {inputBuffer, savedInput} \cup { history[i] : i \in 1..Len(history) }
  /\ UNCHANGED history
  /\ UNCHANGED execVars

\* C10: ESC in Normal state starts the accumulator; the two bytes that follow
\* are taken by it whatever they are; none of the three is appended to the
\* draft, submits a line or writes anything, unless the three are ESC [ A or
\* ESC [ B, which navigate the history; after the third byte the escape buffer
\* is empty.
C10_EscapeDecoding ==
  /\ escapeBuffer = <<>> \/ (Len(escapeBuffer) \in {1, 2} /\ escapeBuffer[1] = ESC)
  /\ escapeBuffer = <<>> =>
       ~ENABLED (HandleInput(ESC, FALSE) /\ ~(escapeBuffer' = <<ESC>> /\ Quiet))
  /\ Len(escapeBuffer) = 1 =>
       \A char \in EscapeBytes :
         ~ENABLED (HandleInput(char, FALSE) /\ ~(escapeBuffer' = <<ESC, char>> /\ Quiet))
  /\ Len(escapeBuffer) = 2 =>
       \A char \in EscapeBytes :
         ~ENABLED (/\ HandleInput(char, FALSE)
                   /\ ~(/\ escapeBuffer' = <<>>
                        /\ IF escapeBuffer[2] = "[" /\ char \in {"A", "B"}
                           THEN NavigatesOnly ELSE Quiet))

\* ESC and CR are in the accumulator and the draft was not submitted
C10_Witness ==
  /\ escapeBuffer = <<ESC, CR>>
  /\ inputBuffer # <<>>
  /\ history = <<>>

BlankDraft == \A k \in 1..Len(inputBuffer) : IsSpace(inputBuffer[k])

\* C12: Enter on an empty or white-space-only draft appends nothing to the
\* history, starts no command, leaves env and cwd unchanged, empties the
\* draft, resets the history cursor and writes a line break and one prompt.
C12_BlankLine ==
  (escapeBuffer = <<>> /\ BlankDraft) =>
    \A char \in {CR, LF} :
      ~ENABLED (/\ HandleInput(char, FALSE)
                /\ ~(/\ inputBuffer' = <<>>
                     /\ historyIndex' = -1
                     /\ written' = <<Write("stdout", <<CR, LF>>), printPrompt(env, cwd)>>
                     /\ UNCHANGED <<history, savedInput, escapeBuffer>>
                     /\ UNCHANGED <<env, cwd, loadedCommands, tasks, loaderCalls>>))

\* a blank line was submitted after a line the history holds, from navigation
C12_Witness ==
  /\ written = <<Write("stdout", <<CR, LF>>), printPrompt(env, cwd)>>
  /\ inputBuffer = <<>>
  /\ historyIndex = -1
  /\ Len(history) = 1
  /\ tasks = <<>>


(***************************************************************************)
(* Tab completion (C13-C16).                                               *)
(***************************************************************************)
\* the non-empty pieces between runs of white space: the tokens of a draft
Tokens(s) == SelectSeq(SplitWS(s), LAMBDA piece : piece # <<>>)

\* handleTabCompletion completes a command name (and not a path)
CompletesCommand == Len(SplitWS(inputBuffer)) <= 1

\* the word Tab completes: the only piece, or the last one
LastPiece == SplitWS(inputBuffer)[Len(SplitWS(inputBuffer))]

\* the candidates Tab finds for the draft
Candidates ==
  IF CompletesCommand THEN getCommandCompletions(LastPiece)
  ELSE getPathCompletions(LastPiece)

\* the part of the completed word that names the entry: all of a command
\* name, what follows the last slash of a path
NamePrefix ==
  IF CompletesCommand THEN LastPiece ELSE SliceFrom(LastPiece, LastSlash(LastPiece))

\* s is a tail of t
IsTail(s, t) == Len(s) <= Len(t) /\ SubSeq(t, Len(t) - Len(s) + 1, Len(t)) = s

\* what a candidate adds to the typed prefix it starts with
MissingSuffix(candidate, typed) ==
  CHOOSE s \in { SubSeq(candidate, k, Len(candidate)) : k \in 1..(Len(candidate) + 1) } :
    typed \o s = candidate

\* the step appends text to the draft and writes exactly text
AppendsAndEchoes(text) ==
  /\ inputBuffer' = inputBuffer \o text
  /\ written' = <<Write("stdout", text)>>

\* a step of handleInput for the Tab byte, outside an escape sequence
TabStep == escapeBuffer = <<>> /\ HandleInput(TAB, FALSE)

\* C13 as stated: with exactly one candidate, in command-name and in path
\* completion alike, Tab appends and echoes the missing suffix of the
\* candidate followed by one space.
C13_SuffixAndSpace ==
  [][(TabStep /\ Len(Candidates) = 1) =>
       AppendsAndEchoes(MissingSuffix(Candidates[1], NamePrefix) \o <<" ">>)]_vars

\* C13, amended: with exactly one candidate Tab writes one text and appends
\* exactly that text to the draft; in command-name completion the text is the
\* missing suffix of the candidate and one space; in path completion it is a
\* tail of the candidate with no space added, the missing suffix when the
\* completed word holds no slash.
C13_SingleCandidate ==
  [][(TabStep /\ Len(Candidates) = 1) =>
       /\ Len(written') = 1
       /\ AppendsAndEchoes(written'[1].text)
       /\ CompletesCommand =>
            written'[1].text = MissingSuffix(Candidates[1], NamePrefix) \o <<" ">>
       /\ ~CompletesCommand =>
            /\ IsTail(written'[1].text, Candidates[1])
            /\ LastSlash(LastPiece) = 0 =>
                 written'[1].text = MissingSuffix(Candidates[1], NamePrefix)]_vars

\* a path was completed to its only candidate and no space followed it
C13_Witness ==
  /\ inputBuffer = <<" ">> \o AboutMd
  /\ written = <<Write("stdout", Tail(AboutMd))>>

\* the last token of the draft
LastToken == Tokens(inputBuffer)[Len(Tokens(inputBuffer))]

\* C14: when the draft has at least two tokens and exactly one directory
\* entry matches the name-prefix of the last token, Tab appends and echoes
\* exactly the characters of the entry name (with '/' for a directory) that
\* follow the typed name-prefix, whether the token holds a slash or not.
C14_KeepsTypedPrefix ==
  [][(/\ TabStep
      /\ Len(Tokens(inputBuffer)) >= 2
      /\ Len(getPathCompletions(LastToken)) = 1) =>
       AppendsAndEchoes(MissingSuffix(getPathCompletions(LastToken)[1],
                                      SliceFrom(LastToken, LastSlash(LastToken))))]_vars

\* everything the last step wrote to stdout, as one text; stderr untouched
StdoutText(w) == Join([k \in 1..Len(w) |-> w[k].text], <<>>)
OnlyStdout(w) == \A k \in 1..Len(w) : w[k].sink = "stdout"

\* C15: Tab changes the draft only when there is exactly one candidate.  With
\* no candidate it writes nothing and changes nothing; with two or more it
\* writes a line break, the candidates joined by spaces, a line break, the
\* prompt and the unchanged draft, and leaves draft, history and cursor alone.
C15_NoneOrSeveral ==
  [][(TabStep /\ Len(Candidates) # 1) =>
       /\ UNCHANGED <<inputBuffer, history, historyIndex, savedInput, escapeBuffer>>
       /\ UNCHANGED <<env, cwd, loadedCommands, tasks, loaderCalls, fs, mounts, commandStores>>
       /\ Len(Candidates) = 0 => written' = <<>>
       /\ Len(Candidates) >= 2 =>
            /\ OnlyStdout(written')
            /\ printPrompt(env, cwd) \in { written'[k] : k \in 1..Len(written') }
            /\ StdoutText(written') =
                 <<CR, LF>> \o Join(Candidates, <<" ", " ">>) \o <<CR, LF>>
                   \o PromptText(env, cwd) \o inputBuffer]_vars

\* Tab listed the two directories that start with s and redrew the draft
C15_Witness ==
  /\ inputBuffer = <<"l", "s", " ", "/", "s">>
  /\ Len(written) = 4
  /\ written[2].text = <<"s", "h", "a", "r", "e", "d", "/", " ", " ", "s", "i", "t", "e", "/", CR, LF>>
  /\ written[4].text = inputBuffer

\* the entry names of the PATH directories that can be read
PathEntryNames ==
  UNION { readdirSync(fs, PathDirs(env)[i]) :
            i \in { j \in 1..Len(PathDirs(env)) : CanReaddir(fs, PathDirs(env)[j]) } }

\* the names a command-name completion of token has to offer
ExpectedCommands(token) == { n \in PathEntryNames : StartsWith(n, token) }

\* the one enumeration of a set of strings in strictly ascending order
AscendingList(S) ==
  CHOOSE list \in [1..Cardinality(S) -> S] :
    \A k \in 1..(Cardinality(S) - 1) : StrLess(list[k], list[k + 1])

\* the step is a command-name completion of token over exactly the expected
\* names, each once, in ascending order
CompletesCommandName(token) ==
  LET list == AscendingList(ExpectedCommands(token)) IN
  /\ Len(list) = 0 => written' = <<>> /\ UNCHANGED inputBuffer
  /\ Len(list) = 1 => AppendsAndEchoes(MissingSuffix(list[1], token) \o <<" ">>)
  /\ Len(list) >= 2 =>
       /\ UNCHANGED inputBuffer
       /\ StdoutText(written') =
            <<CR, LF>> \o Join(list, <<" ", " ">>) \o <<CR, LF>>
              \o PromptText(env, cwd) \o inputBuffer

\* the only token of a draft, or the empty string
OnlyToken == IF Tokens(inputBuffer) = <<>> THEN <<>> ELSE Tokens(inputBuffer)[1]

\* C16 as stated: when the draft holds zero or one whitespace-separated
\* tokens, Tab completes a command name over exactly the names in the
\* readable PATH directories that start with the token, each once, ascending.
C16_AtMostOneToken ==
  [][(TabStep /\ Len(Tokens(inputBuffer)) <= 1) => CompletesCommandName(OnlyToken)]_vars

\* C16, amended: when the draft holds no white space (it is empty or one
\* token and nothing else), Tab completes a command name over exactly the
\* names in the readable PATH directories that start with the draft, each
\* once, in ascending order; missing PATH directories are skipped.
C16_CommandNames ==
  [][(TabStep /\ \A k \in 1..Len(inputBuffer) : ~IsSpace(inputBuffer[k])) =>
       CompletesCommandName(inputBuffer)]_vars

\* Tab on the empty draft listed the four names of /usr/bin, /site and /bin,
\* the name a of both /usr/bin and /bin once
C16_Witness ==
  /\ inputBuffer = <<>>
  /\ Len(written) = 4
  /\ written[2].text = Join(<<NameA, AboutMd, NameB, IndexMd>>, <<" ", " ">>) \o <<CR, LF>>


(***************************************************************************)
(* The parser (C17-C20).  The quoting mode of a line is followed character *)
(* by character by an automaton of its own, apart from the parser's scan.  *)
(***************************************************************************)
\* the quoting mode after the first i characters of a line: "plain",
\* "escaped" (after a backslash outside quotes), "single", "double", or
\* "double-escaped" (after a backslash inside double quotes)
RECURSIVE ModeAfter(_, _)
ModeAfter(line, i) ==
  IF i = 0 THEN "plain"
  ELSE LET mode == ModeAfter(line, i - 1)
           c == line[i]
       IN CASE mode = "escaped" -> "plain"
            [] mode = "double-escaped" -> "double"
            [] mode = "single" -> IF c = "'" THEN "plain" ELSE "single"
            [] mode = "double" -> IF c = "\\" THEN "double-escaped"
                                  ELSE IF c = "\"" THEN "plain" ELSE "double"
            [] OTHER -> IF c = "\\" THEN "escaped"
                        ELSE IF c = "'" THEN "single"
                        ELSE IF c = "\"" THEN "double" ELSE "plain"

\* the character at position i is outside quotes and unescaped; inside quotes
Unquoted(line, i) == ModeAfter(line, i - 1) = "plain"
Quoted(line, i) == ModeAfter(line, i - 1) \in {"single", "double", "double-escaped"}

\* the rejected construct that starts at position i of a line, or nothing
ConstructText(line, i) ==
  IF line[i] \in {"|", ";", "<", ">", Backquote} THEN <<line[i]>>
  ELSE IF i < Len(line) /\ line[i] \in {"&", "$"} /\ line[i + 1] = (IF line[i] = "&" THEN "&" ELSE "(")
    THEN <<line[i], line[i + 1]>>
  ELSE <<>>

ConstructsOf(line) == { i \in 1..Len(line) : ConstructText(line, i) # <<>> }

\* text occurs in s
Occurs(text, s) == \E k \in 0..(Len(s) - Len(text)) : SubSeq(s, k + 1, k + Len(text)) = text

\* parseCommand throws the named error
Throws(parsed, error) == parsed.kind = "throw" /\ parsed.error = error

\* C17: parseCommand fails with UnsupportedSyntax if the line holds |, ;, &&,
\* ||, <, >, a backtick or $( outside quotes and unescaped; it does not if
\* every such construct lies inside single or double quotes, and a command it
\* then returns keeps each construct verbatim in a token.
C17_UnsupportedSyntax ==
  LET parsed == parseCommand(inputBuffer)
      at == ConstructsOf(inputBuffer)
  IN /\ (\E i \in at : Unquoted(inputBuffer, i)) => Throws(parsed, "UnsupportedSyntaxError")
     /\ (\A i \in at : Quoted(inputBuffer, i)) =>
          /\ ~Throws(parsed, "UnsupportedSyntaxError")
          /\ parsed.kind = "command" =>
               \A i \in at : \E k \in 1..(Len(parsed.args) + 1) :
                 Occurs(ConstructText(inputBuffer, i), (<<parsed.name>> \o parsed.args)[k])

\* the line  a "a|b"  was submitted and runs a with the argument a|b
C17_Witness ==
  \E i \in 1..Len(tasks) : tasks[i].name = NameA /\ tasks[i].args = << <<"a", "|", "b">> >>

\* the name the documentation gives the construct at position i
ConstructName(line, i) ==
  LET next == IF i < Len(line) THEN line[i + 1] ELSE Undefined IN
  IF line[i] = "|" THEN (IF next = "|" THEN "logical OR" ELSE "pipes")
  ELSE IF line[i] = "&" THEN "logical AND"
  ELSE IF line[i] \in {"<", ">"} THEN "redirections"
  ELSE IF line[i] = ";" THEN "command chaining"
  ELSE "command substitution"

\* the construct an UnsupportedSyntax message names
NamedConstruct(message) ==
  CASE message[2] = "pipes (|)" -> "pipes"
    [] message[2] = "logical OR (||)" -> "logical OR"
    [] message[2] = "logical AND (&&)" -> "logical AND"
    [] message[2] = "redirections (>, <, >>)" -> "redirections"
    [] message[2] = "command chaining (;)" -> "command chaining"
    [] OTHER -> "command substitution"

\* the first rejected construct of a line that holds one outside quotes
FirstConstruct(line) ==
  CHOOSE i \in ConstructsOf(line) :
    /\ Unquoted(line, i)
    /\ \A j \in ConstructsOf(line) : Unquoted(line, j) => i <= j

\* C18: the UnsupportedSyntax failure names the first rejected construct of
\* the line: | pipes, || logical OR, && logical AND, < and > redirections,
\* ; command chaining, backtick and $( command substitution.
C18_NamesFirstConstruct ==
  (\E i \in ConstructsOf(inputBuffer) : Unquoted(inputBuffer, i)) =>
    /\ Throws(parseCommand(inputBuffer), "UnsupportedSyntaxError")
    /\ NamedConstruct(parseCommand(inputBuffer).message)
         = ConstructName(inputBuffer, FirstConstruct(inputBuffer))

\* the quoting mode at the end of the draft
EndMode == ModeAfter(inputBuffer, Len(inputBuffer))

\* the draft ends inside a quote and parseCommand reports that quote as
\* unterminated, returning no command
ReportsUnterminated ==
  /\ Throws(parseCommand(inputBuffer), "ParseError")
  /\ parseCommand(inputBuffer).message =
       <<IF EndMode = "single" THEN "Unterminated single quote"
         ELSE "Unterminated double quote">>

\* C19 as stated: every non-blank line whose quote state at end of line is
\* inside a single or a double quote fails with ParseError, reporting an
\* unterminated single or double quote respectively, and yields no tokens.
C19_EveryOpenQuote ==
  (Trim(inputBuffer) # <<>> /\ EndMode \in {"single", "double", "double-escaped"}) =>
    ReportsUnterminated

\* C19, amended: every non-blank line that ends inside a single or a double
\* quote and holds no rejected construct outside quotes and unescaped fails
\* with ParseError, reporting an unterminated single or double quote
\* respectively, and yields no tokens.
C19_UnterminatedQuote ==
  (/\ Trim(inputBuffer) # <<>>
   /\ EndMode \in {"single", "double", "double-escaped"}
   /\ \A i \in ConstructsOf(inputBuffer) : ~Unquoted(inputBuffer, i)) =>
    ReportsUnterminated

\* a line that ended inside a single quote was submitted and reported
C19_Witness ==
  /\ inputBuffer = <<>>
  /\ Write("stderr", <<"Parse error: ", "Unterminated single quote", CR, LF>>)
       \in { written[k] : k \in 1..Len(written) }

\* a character that can start the name of a variable
IsNameStart(c) == c = "_" \/ CharCode(c) \in (65..90) \cup (97..122)

\* a variable expansion $NAME starts at position i
ExpansionAt(line, i) == line[i] = "$" /\ i < Len(line) /\ IsNameStart(line[i + 1])

\* C20: parseCommand throws UnsupportedSyntaxError for every input that
\* holds a variable expansion $NAME outside quotes.
C20_VariableExpansion ==
  (\E i \in 1..Len(inputBuffer) : ExpansionAt(inputBuffer, i) /\ Unquoted(inputBuffer, i)) =>
    Throws(parseCommand(inputBuffer), "UnsupportedSyntaxError")


(***************************************************************************)
(* Escapes and token boundaries (C21-C23).                                 *)
(***************************************************************************)
\* an ordinary character that no line of ParseLines holds
Marker == "x"

\* s with every Marker replaced by c
Subst(s, c) == [k \in 1..Len(s) |-> IF s[k] = Marker THEN c ELSE s[k]]

\* a parse result with every Marker of its tokens replaced by c
SubstParsed(parsed, c) ==
  IF parsed.kind = "command"
  THEN [kind |-> "command", name |-> Subst(parsed.name, c),
        args |-> [k \in 1..Len(parsed.args) |-> Subst(parsed.args[k], c)]]
  ELSE parsed

\* the positions of a line that follow a backslash outside quotes
EscapedAt(line) == { i \in 1..Len(line) : ModeAfter(line, i - 1) = "escaped" }

\* the line with the backslash at i - 1 and the character at i replaced by
\* the one ordinary character Marker
AsOrdinary(line, i) == SubSeq(line, 1, i - 2) \o <<Marker>> \o SubSeq(line, i + 1, Len(line))

\* C21: outside quotes a backslash followed by a character c contributes
\* exactly c to the current token, and c is no separator, quote or rejected
\* operator: at every position the pair parses as one ordinary character
\* would, with c in its place; an escaped blank stays inside the token
\* wherever it occurs.
C21_BackslashOutsideQuotes ==
  \A i \in EscapedAt(inputBuffer) :
    parseCommand(inputBuffer)
      = SubstParsed(parseCommand(AsOrdinary(inputBuffer, i)), inputBuffer[i])

\* s with every Marker replaced by text
SubstText(s, text) == Join([k \in 1..Len(s) |-> IF s[k] = Marker THEN text ELSE <<s[k]>>], <<>>)

\* a parse result with every Marker of its tokens replaced by text
SubstParsedText(parsed, text) ==
  IF parsed.kind = "command"
  THEN [kind |-> "command", name |-> SubstText(parsed.name, text),
        args |-> [k \in 1..Len(parsed.args) |-> SubstText(parsed.args[k], text)]]
  ELSE parsed

\* what a backslash and the character c after it stand for in double quotes
EscapeValue(c) ==
  CASE c \in {"\"", "\\", "$", Backquote} -> <<c>>
    [] c = "n" -> <<LF>>
    [] c = "t" -> <<TAB>>
    [] c = "r" -> <<CR>>
    [] OTHER -> <<"\\", c>>

\* the line with the character at i replaced by Marker
WithMarkerAt(line, i) == [k \in 1..Len(line) |-> IF k = i THEN Marker ELSE line[k]]

\* C22: inside double quotes a backslash followed by ", \, $ or a backtick
\* gives that character alone, followed by n, t or r gives LF, TAB or CR,
\* followed by any other character gives the backslash and the character;
\* inside single quotes a backslash and every other character are copied
\* literally.
C22_EscapesInQuotes ==
  /\ \A i \in { j \in 1..Len(inputBuffer) : ModeAfter(inputBuffer, j - 1) = "double-escaped" } :
       parseCommand(inputBuffer)
         = SubstParsedText(parseCommand(AsOrdinary(inputBuffer, i)), EscapeValue(inputBuffer[i]))
  /\ \A i \in { j \in 1..Len(inputBuffer) :
                  ModeAfter(inputBuffer, j - 1) = "single" /\ inputBuffer[j] # "'" } :
       parseCommand(inputBuffer)
         = SubstParsedText(parseCommand(WithMarkerAt(inputBuffer, i)), <<inputBuffer[i]>>)

\* the line  a "\n"  was submitted and runs a with a line feed as its argument
C22_Witness ==
  \E i \in 1..Len(tasks) : tasks[i].name = NameA /\ tasks[i].args = << <<LF>> >>

\* the characters of a line at the positions of a set, in order
KeepAt(line, S) ==
  LET nth(k) == CHOOSE i \in S : Cardinality({ j \in S : j < i }) = k - 1
  IN [k \in 1..Cardinality(S) |-> line[nth(k)]]

\* the positions of unquoted white space: the separators
Separators(line) ==
  { i \in 1..Len(line) : ModeAfter(line, i - 1) = "plain" /\ IsSpace(line[i]) }

\* the positions of the quote characters that open or close a quote
Delimiters(line) ==
  { i \in 1..Len(line) :
      \/ ModeAfter(line, i - 1) = "plain" /\ line[i] \in {"'", "\""}
      \/ ModeAfter(line, i - 1) = "single" /\ line[i] = "'"
      \/ ModeAfter(line, i - 1) = "double" /\ line[i] = "\"" }

\* the positions where a word starts: a maximal run without a separator
WordStarts(line) ==
  { i \in 1..Len(line) \ Separators(line) : i = 1 \/ (i - 1) \in Separators(line) }

\* the positions of the word that starts at s
WordAt(line, s) ==
  { i \in s..Len(line) : \A j \in s..i : j \notin Separators(line) }

\* the words of a line, each without its quote delimiters
WordsOf(line) ==
  LET starts == WordStarts(line)
      nth(k) == CHOOSE s \in starts : Cardinality({ t \in starts : t < s }) = k - 1
  IN [k \in 1..Cardinality(starts) |-> KeepAt(line, WordAt(line, nth(k)) \ Delimiters(line))]

\* no backslash of the line acts as an escape (those are C21 and C22)
NoEscapes(line) ==
  \A i \in 1..Len(line) : line[i] = "\\" => ModeAfter(line, i - 1) = "single"

\* C23: unquoted white space is the only token separator: the tokens are the
\* words between runs of unquoted white space, one token per word, quoted and
\* unquoted fragments of a word joined, a pair of empty quotes alone giving
\* the empty token, and no token for a run of white space; the first token
\* is the command name and the rest, in order, the arguments.
C23_TokenBoundaries ==
  (/\ NoEscapes(inputBuffer)
   /\ EndMode = "plain"
   /\ \A i \in ConstructsOf(inputBuffer) : ~Unquoted(inputBuffer, i)) =>
    parseCommand(inputBuffer) =
      (IF WordsOf(inputBuffer) = <<>> THEN ParsedNull
       ELSE [kind |-> "command", name |-> WordsOf(inputBuffer)[1],
             args |-> Tail(WordsOf(inputBuffer))])

\* the line  a  '' a"a"'a'  was submitted: a runs with an empty argument and
\* the argument aaa
C23_Witness ==
  \E i \in 1..Len(tasks) :
    tasks[i].name = NameA /\ tasks[i].args = << <<>>, <<"a", "a", "a">> >>


(***************************************************************************)
(* Paths and the working directory (C24..C28), over SpecPath and SpecCd.   *)
(***************************************************************************)
\* the paths resolvePath is asked about
ResolveInputs ==
  { <<>>, <<".">>, <<".", ".">>, <<".", ".", "/", ".", ".">>,
    <<".", ".", "/", ".", ".", "/", ".", ".", "/", ".", ".">>,
    <<"/">>, <<"/", ".", ".">>, <<"/", "/", "a", "/", "/", "b", "/">>,
    <<"/", "a", "/", ".", ".", "/", "b", "/", ".">>,
    <<"~">>, <<"~", "/">>, <<"~", "/", "a", "/", ".", ".">>, <<"~", "/", ".", ".", "/", "b">>,
    <<"~", "a">>, <<"a", "/", ".", "/", ".", ".">>, <<"a", "/", ".", ".", "/", ".", ".", "/", "b">>,
    Docs, <<".", ".", "/">> \o Docs }

\* the segments left of a list of parts when '.' and empty parts are dropped
\* and each '..' removes the segment before it, if there is one
RECURSIVE Canonical(_)
Canonical(parts) ==
  IF parts = <<>> THEN <<>>
  ELSE LET front == Canonical(DropLast(parts))
           last == parts[Len(parts)]
       IN IF last = <<>> \/ last = <<".">> THEN front
          ELSE IF last = <<".", ".">> THEN (IF front = <<>> THEN <<>> ELSE DropLast(front))
          ELSE Append(front, last)

\* what a path stands for before normalization: itself when absolute, HOME and
\* the rest for '~' and '~/rest', the working directory and the path otherwise
HomeOrRoot == IF EnvGet(env, "HOME") # <<>> THEN env["HOME"] ELSE <<"/">>
Anchored(path) ==
  IF path # <<>> /\ path[1] = "/" THEN path
  ELSE IF path = <<"~">> \/ (Len(path) >= 2 /\ path[1] = "~" /\ path[2] = "/")
    THEN HomeOrRoot \o Tail(path)
  ELSE cwd \o <<"/">> \o path

\* an absolute path without '.', '..' or empty segment
IsNormalized(path) ==
  /\ path # <<>>
  /\ path[1] = "/"
  /\ \/ path = <<"/">>
     \/ LET segs == Split(Tail(path), "/")
        IN \A k \in 1..Len(segs) : segs[k] \notin {<<>>, <<".">>, <<".", ".">>}

\* C24: for every path, working directory and HOME, resolvePath normalizes an
\* absolute path as it is, expands '~' and '~/rest' against HOME and resolves
\* any other path against the working directory; the result starts with '/',
\* has no '.', '..' or empty segment, each '..' removed the segment before it,
\* and '..' at the root leaves '/'.
C24_ResolvePath ==
  /\ \A path \in ResolveInputs :
       /\ resolvePath(path) = <<"/">> \o Join(Canonical(Split(Anchored(path), "/")), <<"/">>)
       /\ IsNormalized(resolvePath(path))
  /\ cwd = HomeDir =>
       /\ resolvePath(<<".", ".">>) = HomeParent
       /\ resolvePath(<<".", ".", "/", ".", ".">>) = RootDir
  /\ resolvePath(<<"/", ".", ".">>) = RootDir

\* Tab on 'cd ~/d' in /home found docs/ in the directory resolvePath gave for
\* '~', not in the working directory, and appended what follows its third
\* character
C24_Witness ==
  /\ cwd = HomeParent
  /\ inputBuffer = CdName \o <<" ", "~", "/", "d", "s", "/">>
  /\ written = <<Write("stdout", <<"s", "/">>)>>


\* C25: through any sequence of cd invocations the working directory is an
\* absolute, normalized path without '.', '..' or empty segment, and only the
\* setCwd call of a command body changes it.
C25_CwdNormalized ==
  /\ []IsNormalized(cwd)
  /\ [][cwd' # cwd => CdBody]_vars


\* the step in which the body of cd runs for the suspended call i, and whether
\* it returned 0
CdStep(i) == i \in 1..Len(tasks) /\ CdRuns(i)
CdSucceeded(i) == tasks'[i].code = <<0>>

\* C26: every successful cd sets OLDPWD to the working directory it left and
\* 'cd -' moves to OLDPWD; so after a successful 'cd a' from S, 'cd -' returns
\* to S and a second 'cd -' to the directory 'cd a' entered: two consecutive
\* 'cd -' leave the working directory unchanged.
C26_OldPwdRoundTrip ==
  [][\A i \in 1..Len(tasks) :
       (CdStep(i) /\ CdSucceeded(i)) =>
          /\ EnvGet(env', "OLDPWD") = cwd
          /\ tasks[i].args = << <<"-">> >> => cwd' = EnvGet(env, "OLDPWD")
          /\ LET back == cd(<< <<"-">> >>, env', cwd')
                 again == cd(<< <<"-">> >>, back.env, back.cwd)
             IN /\ back.code = 0 /\ back.cwd = cwd
                /\ again.code = 0 /\ again.cwd = cwd'
                /\ EnvGet(again.env, "OLDPWD") = cwd]_vars

\* 'cd ~/docs', 'cd -', 'cd -' were submitted from /home/guest and the last
\* one returned: the session is in docs again and OLDPWD is /home/guest
C26_Witness ==
  /\ history = << CdName \o <<" ", "~", "/">> \o Docs, CdName \o <<" ", "-">> >>
  /\ tasks = <<>>
  /\ cwd = DocsDir
  /\ EnvGet(env, "OLDPWD") = HomeDir
  /\ EnvGet(env, "?") = <<"0">>


\* the target of a cd call with the arguments args, and the directory it
\* stands for
TargetOf(args) == IF args # <<>> /\ args[1] # <<>> THEN args[1] ELSE HomeOrRoot
Destination(target) ==
  LET path == IF target = <<"-">> THEN EnvGet(env, "OLDPWD") ELSE Anchored(target)
  IN <<"/">> \o Join(Canonical(Split(path, "/")), <<"/">>)
\* why cd must fail for a target, "" when it must not
Failure(target) ==
  IF target = <<"-">> /\ EnvGet(env, "OLDPWD") = <<>> THEN <<"OLDPWD not set">>
  ELSE IF Destination(target) \notin DOMAIN fs
    THEN target \o <<": No such file or directory">>
  ELSE IF fs[Destination(target)] # "dir" THEN target \o <<": Not a directory">>
  ELSE <<>>

\* C27: a cd whose target does not exist, is not a directory, or is '-' with
\* OLDPWD unset returns 1, writes a message to the error sink, does not call
\* setCwd and leaves the working directory, PWD and OLDPWD as they were; no
\* other cd fails.
C27_FailingCd ==
  [][\A i \in 1..Len(tasks) :
       CdStep(i) =>
         LET why == Failure(TargetOf(tasks[i].args)) IN
         /\ CdSucceeded(i) <=> why = <<>>
         /\ why # <<>> =>
              /\ tasks'[i].code = <<1>>
              /\ written' = <<Write("stderr", <<"cd: ">> \o why \o <<CR, LF>>)>>
              /\ cwd' = cwd
              /\ env' = env]_vars

\* 'cd f' failed in /home/guest after a successful 'cd ~': f is a file
C27_Witness ==
  /\ Len(tasks) = 1
  /\ tasks[1].pc = "returned"
  /\ tasks[1].code = <<1>>
  /\ written = <<Write("stderr", <<"cd: ", "f", ": Not a directory", CR, LF>>)>>
  /\ cwd = HomeDir
  /\ EnvGet(env, "PWD") = HomeDir
  /\ EnvGet(env, "OLDPWD") = HomeDir


RegistryMounts == { p \in DOMAIN mounts : isBinFS(mounts[p]) }

\* C29: in every reachable state, also after mkdir aimed at a registry mount,
\* the directory entries of a registry mount are exactly the keys of its
\* command table.
C29_EntriesMatchKeys ==
  \A p \in RegistryMounts : readdirSync(fs, p) = DOMAIN commandStores[mounts[p]]


\* the names getCommand is asked for
RegNames == {NameA, NameB, MkdirName, <<"x">>}
\* the map the configuration gives BinFS.create for a mount point
TableAt(point) ==
  IF point = BinDir THEN RegCommands
  ELSE IF point = UsrBinDir THEN UsrBinCommands
  ELSE IF point = OptDir THEN OptCommands
  ELSE <<>>

\* C30: getCommand(instance, name) returns the entry the map given at that
\* instance's creation holds for name, or nothing, never another instance's;
\* isBinFS is true exactly for the handles BinFS.create returned; creating
\* further instances does not change these answers for existing ones.
C30_InstancesIndependent ==
  /\ [](/\ \A p \in DOMAIN mounts, name \in RegNames :
             getCommand(mounts[p], name) =
               (IF name \in DOMAIN TableAt(p) THEN TableAt(p)[name] ELSE Null)
        /\ \A h \in Handles :
             isBinFS(h) <=> \E p \in DOMAIN mounts \ {RootDir} : mounts[p] = h)
  /\ [][\A h \in Handles, name \in RegNames :
          isBinFS(h) => /\ isBinFS(h)'
                        /\ getCommand(h, name)' = getCommand(h, name)]_vars

\* /opt was mounted before /usr/bin, and a directory was made in /bin: three
\* instances answer for the name a, each with its own entry
C30_Witness ==
  /\ OptDir \in DOMAIN mounts
  /\ UsrBinDir \in DOMAIN mounts
  /\ mounts[OptDir] = "binfs2"
  /\ mounts[UsrBinDir] = "binfs3"
  /\ getCommand("binfs1", NameA) = LazyEntry("bin/a")
  /\ getCommand("binfs2", NameA) = DirectEntry("opt/a")
  /\ getCommand("binfs3", NameA) = LazyEntry("usr/bin/a")
  /\ BinDir \o <<"/", "x">> \in DOMAIN fs


(***************************************************************************)
(* Host callbacks (C31), over SpecHost.                                    *)
(***************************************************************************)
\* the step in which the body of open or emacs runs for the call i in a
\* context that has the command's callback (present) or not
HostStep(i, present) == i \in 1..Len(tasks) /\ HostRuns(i, present)
\* the calls of callbacks and the stderr writes of a step
CallbackCalls(out) == { k \in 1..Len(out) : out[k].sink \in {"onOpen", "onEmacs"} }
ErrorWrites(out) == { k \in 1..Len(out) : out[k].sink = "stderr" }
EndsInCRLF(text) ==
  Len(text) >= 2 /\ text[Len(text) - 1] = CR /\ text[Len(text)] = LF
\* the step reported the missing callback and returned 1
UnavailableText(name) ==
  IF name = OpenName THEN <<"open: browser not available", CR, LF>>
  ELSE <<"emacs: editor not available", CR, LF>>
Unavailable(i) ==
  /\ tasks'[i].code = <<1>>
  /\ written' = <<Write("stderr", UnavailableText(tasks[i].name))>>
\* the step called the callback once, wrote nothing and returned 0
CalledOnce(i) ==
  /\ tasks'[i].code = <<0>>
  /\ Len(written') = 1
  /\ CallbackCalls(written') = {1}
\* the file or URL an open call is about is one open can show
IsWebAddress(arg) ==
  \/ StartsWith(arg, <<"w", "w", "w", ".">>)
  \/ StartsWith(arg, <<"h", "t", "t", "p", ":", "/", "/">>)
  \/ StartsWith(arg, <<"h", "t", "t", "p", "s", ":", "/", "/">>)
NamedPath(arg) == <<"/">> \o Join(Canonical(Split(Anchored(arg), "/")), <<"/">>)
Openable(args) ==
  /\ args # <<>>
  /\ \/ IsWebAddress(args[1])
     \/ NamedPath(args[1]) \in DOMAIN fs /\ fs[NamedPath(args[1])] = "file"

\* C31 as claimed: whatever its arguments, a command run without its callback
\* returns 1 and writes a 'not available' message ending in CR LF, and with
\* the callback calls it exactly once and returns 0.
C31_CallbackDecides ==
  [][\A i \in 1..Len(tasks), present \in BOOLEAN :
       HostStep(i, present) =>
         /\ tasks'[i].pc = "returned"
         /\ ~present => Unavailable(i)
         /\ present => CalledOnce(i)]_vars

\* C31: emacs, and open for a URL or an existing file that is no directory,
\* return 1 with a 'not available' message ending in CR LF when the callback
\* is missing, and call it exactly once and return 0 when it is present; open
\* without operand or for a missing file or a directory returns 1 with its
\* own message ending in CR LF; no call throws or calls a callback otherwise.
C31_MissingCallback ==
  [][\A i \in 1..Len(tasks), present \in BOOLEAN :
       HostStep(i, present) =>
         /\ tasks'[i].pc = "returned"
         /\ IF tasks[i].name = EmacsName \/ Openable(tasks[i].args)
            THEN /\ ~present =>
                      Unavailable(i)
                 /\ present => CalledOnce(i)
            ELSE /\ tasks'[i].code = <<1>>
                 /\ Len(written') = 1
                 /\ ErrorWrites(written') = {1}
                 /\ EndsInCRLF(written'[1].text)]_vars

\* 'open /site/p.md' ran in a context with onOpen: the callback got '/p'
C31_Witness ==
  /\ Len(tasks) = 1
  /\ tasks[1].name = OpenName
  /\ tasks[1].pc = "returned"
  /\ tasks[1].code = <<0>>
  /\ written = <<Write("onOpen", <<"/", "p">>)>>

\* 'emacs' ran in a context without onEmacs
C31_WitnessMissing ==
  /\ Len(tasks) = 1
  /\ tasks[1].name = EmacsName
  /\ tasks[1].code = <<1>>
  /\ written = <<Write("stderr", <<"emacs: editor not available", CR, LF>>)>>


(***************************************************************************)
(* Startup (C32), over SpecStart.                                          *)
(***************************************************************************)
\* a line of the login profile has been given to the executor: the profile's
\* line is the lazy command 'a', whose loader the executor invokes
ProfileSourced == \E p \in DOMAIN loaderCalls : loaderCalls[p] > 0
\* no byte has been handled yet
NothingHandled ==
  /\ inputBuffer = <<>>
  /\ history = <<>>
  /\ escapeBuffer = <<>>
  /\ tasks = <<>>

\* C32: start() writes the banner, gives the lines of the login profile, if
\* there is one, to the executor, then writes the first prompt and registers
\* the input consumer once; no byte is handled before the first prompt.
C32_StartupOrder ==
  /\ [][start =>
          /\ SubSeq(written', 1, Len(printWelcome)) = printWelcome
          /\ written'[Len(written')] = printPrompt(env', cwd')
          /\ ProfilePath \in DOMAIN fs => ProfileSourced'
          /\ inputConsumers' = 1]_vars
  /\ [](inputConsumers = 0 => NothingHandled)
  /\ [][inputConsumers' # inputConsumers => start]_vars

\* the part of C32 the code keeps: banner, prompt, one registration, and no
\* byte handled before
C32_BannerPromptConsumer ==
  /\ [][start =>
          /\ written' = printWelcome \o <<printPrompt(env', cwd')>>
          /\ inputConsumers' = 1
          /\ UNCHANGED <<inputVars, execVars>>]_vars
  /\ [](inputConsumers = 0 => NothingHandled /\ written = <<>>)
  /\ [][inputConsumers' # inputConsumers => start]_vars


(***************************************************************************)
(* executeCommand as an entry point of its own (C33), over SpecEmbed.      *)
(***************************************************************************)
\* a step of executeCommand: its call or one of its continuations
ExecutorStep ==
  \/ \E line \in EmbedLines : executeCommandCalled(line)
  \/ Loaded \/ Resolved \/ Returned \/ Settled
\* the step ends the executeCommand call i, which had reached the resolver
CallEnds(i) == i \in 1..Len(tasks) /\ tasks' = RemoveAt(tasks, i)
\* the exit code the ended call leaves: 127 when no command was found,
\* otherwise some code
LeavesExitCode(i) ==
  IF tasks[i].pc = "resolved" /\ tasks[i].fn = Null
  THEN EnvGet(env', "?") = NatToString(127)
  ELSE EnvGet(env', "?") # <<>>

\* C33: executeCommand(line) runs the line and yields its exit code, and no
\* step of it changes the draft, the history, the history cursor or the
\* escape buffer.
C33_StandaloneExecutor ==
  /\ [][ExecutorStep => UNCHANGED inputVars]_vars
  /\ [][\A i \in 1..Len(tasks) : (ExecutorStep /\ CallEnds(i)) => LeavesExitCode(i)]_vars

\* the frame half of C33: no step of a direct call touches the line editor,
\* while the draft, the history and the escape buffer are in use
C33_KeystrokePathUntouched == [][ExecutorStep => UNCHANGED inputVars]_vars

C33_Witness ==
  /\ inputBuffer = <<"x">>
  /\ history = <<<<"x">>>>
  /\ escapeBuffer = <<ESC>>
  /\ "?" \in DOMAIN env
  /\ Len(tasks) = 1


(***************************************************************************)
(* The loaded-command cache (C34), over SpecRace.                          *)
(***************************************************************************)
\* the lazy entries of the registries, by full path
LazyPaths ==
  { FullPath(dir, name) : dir \in DOMAIN mounts, name \in {NameA, NameB} }
\* fn was produced by a loader registered at fullPath
ProducedByLoader(fullPath, fn) ==
  \E dir \in DOMAIN mounts, name \in {NameA, NameB} :
    /\ fullPath = FullPath(dir, name)
    /\ getCommandFromPath(dir, name) # Null
    /\ getCommandFromPath(dir, name).kind = "loader"
    /\ \E call \in 1..Calls(fullPath) : fn = LoadedFn(getCommandFromPath(dir, name), call)
\* the cache only grows and never replaces a callable
CacheKept ==
  \A p \in DOMAIN loadedCommands :
    p \in DOMAIN loadedCommands' /\ loadedCommands'[p] = loadedCommands[p]

\* C34: a full path once in the cache stays with the same callable; only
\* callables produced by lazy loaders are stored; resolving a direct entry
\* leaves the cache unchanged.
C34_CacheAppendOnly ==
  /\ [][CacheKept]_vars
  /\ [](\A p \in DOMAIN loadedCommands : ProducedByLoader(p, loadedCommands[p]))
  /\ [][(Len(tasks') = Len(tasks) + 1 /\ tasks'[Len(tasks')].pc = "resolved")
          => loadedCommands' = loadedCommands]_vars

\* what holds of the cache although loads may overlap: no path leaves it and
\* everything in it was produced by the loader of its path
C34_CacheOnlyLoaderProducts ==
  /\ [][DOMAIN loadedCommands \subseteq DOMAIN loadedCommands']_vars
  /\ [](\A p \in DOMAIN loadedCommands : ProducedByLoader(p, loadedCommands[p]))


(***************************************************************************)
(* Entry kinds (C35), over SpecKinds.                                      *)
(***************************************************************************)
\* what is being called as a loader, and what with an execution context
CalledAsLoader == { tasks[i].fn : i \in { j \in 1..Len(tasks) : tasks[j].pc = "loading" } }
CalledWithContext ==
  { tasks[i].fn : i \in { j \in 1..Len(tasks) : tasks[j].pc \in {"running", "returned"} } }

\* C35: whatever number of parameters an entry declares, only loaders are
\* called as loaders and only commands (direct entries and what loaders
\* produced) are called with the context, their result being the exit code.
C35_KindsNeverConfused ==
  /\ [](\A fn \in CalledAsLoader : fn.kind = "loader")
  /\ [](\A fn \in CalledWithContext : fn.kind = "command")
  /\ [](\A p \in DOMAIN loadedCommands : loadedCommands[p] # Null /\ loadedCommands[p].kind = "command")
  /\ [](EnvGet(env, "?") # FunctionText)

\* what the code does instead: the declared number of parameters decides
C35_ParameterCountDecides ==
  /\ [](\A fn \in CalledAsLoader : fn.length = 0)
  /\ [](\A fn \in CalledWithContext : fn.length > 0)

\* the command without parameters was called as a loader, and the number it
\* returned is in the cache
C35_Witness ==
  /\ \E p \in DOMAIN loadedCommands :
       loadedCommands[p] # Null /\ loadedCommands[p].kind = "number"
  /\ EnvGet(env, "?") = NatToString(1)


(***************************************************************************)
(* Liveness of the prompt (C36), over SpecLive.                            *)
(***************************************************************************)
\* the last thing written is the prompt
PromptIsLast == written # <<>> /\ written[Len(written)] = printPrompt(env, cwd)
\* a submitted line is being executed
LineInFlight == Len(tasks) > 0

\* C36: every submitted line whose loader and body terminate, normally or
\* by failing, is eventually followed by a prompt.
C36_PromptFollows == LineInFlight ~> (~LineInFlight /\ PromptIsLast)

\* the same for the lines whose loader does not reject
C36_PromptFollowsLoaded ==
  (LineInFlight /\ \A i \in 1..Len(tasks) : tasks[i].pc # "loading")
    ~> (~LineInFlight /\ PromptIsLast)


(***************************************************************************)
(* Failing lines are kept in the history (C37), over SpecRecall.           *)
(***************************************************************************)
HistoryLines == { history[k] : k \in 1..Len(history) }
\* the step wrote a failure message
FailureWritten == \E k \in 1..Len(written') : written'[k].sink = "stderr"
\* Enter on the draft line: the line is the newest entry, appended unless it
\* already was the newest, and the cursor is reset
Recorded(line) ==
  /\ history' = (IF history # <<>> /\ history[Len(history)] = line
                 THEN history ELSE Append(history, line))
  /\ historyIndex' = -1
\* the Up arrow completes while the cursor is reset
UpAfterReset ==
  /\ escapeBuffer = <<ESC, "[">>
  /\ historyIndex = -1
  /\ history # <<>>
  /\ HandleInput("A", FALSE)

\* C37: Enter on a non-blank line records it in the history and resets the
\* cursor in the step that starts its execution, so every call in flight and
\* every line that fails (unsupported syntax, parse error, command not found,
\* failing body) is in the history, and the Up arrow pressed next shows the
\* newest entry.
C37_FailingLineInHistory ==
  /\ [][\A line \in RecallLines : SubmitsDraft(line) => Recorded(line)]_vars
  /\ [](\A i \in 1..Len(tasks) : tasks[i].name \in HistoryLines)
  /\ [][\A line \in RecallLines : (SubmitsDraft(line) /\ FailureWritten) =>
          history'[Len(history')] = line]_vars
  /\ [][\A i \in 1..Len(tasks) : (tasks' = RemoveAt(tasks, i) /\ FailureWritten) =>
          tasks[i].name \in HistoryLines /\ UNCHANGED <<history, historyIndex>>]_vars
  /\ [][UpAfterReset => inputBuffer' = history[Len(history)] /\ Shows(history[Len(history)])]_vars

\* 'x' failed with command not found and the Up arrow brought it back
C37_Witness ==
  /\ history = << <<"x">> >>
  /\ historyIndex = 0
  /\ inputBuffer = <<"x">>
  /\ tasks = <<>>
  /\ written # <<>> /\ written[Len(written)] = Write("stdout", <<"x">>)


(***************************************************************************)
(* The history cursor and the escape buffer (C38), over SpecNav.           *)
(***************************************************************************)
\* C38: after every byte the history cursor is -1 or an index of the history
\* (0-based), and the escape buffer is empty or holds ESC alone or ESC and
\* one more byte.
C38_CursorAndEscapeInRange ==
  /\ historyIndex \in {-1} \cup (0..(Len(history) - 1))
  /\ Len(escapeBuffer) <= 2
  /\ escapeBuffer # <<>> => escapeBuffer[1] = ESC

\* the cursor is inside a history of three lines while ESC [ is buffered
C38_Witness ==
  /\ Len(history) = 3
  /\ historyIndex = 1
  /\ escapeBuffer = <<ESC, "[">>


(***************************************************************************)
(* Resolution past directories that supply nothing (C39), over SpecResolve.*)
(***************************************************************************)
ResolvedNames == { NameA, NameB, <<"x">> }
\* the directories of PATH, in order, that are registry mounts with an entry
\* for name
Supplies(dir, name) ==
  /\ dir \in DOMAIN mounts
  /\ mounts[dir] \in DOMAIN commandStores
  /\ name \in DOMAIN commandStores[mounts[dir]]
Suppliers(name) == SelectSeq(PathDirs(env), LAMBDA dir : Supplies(dir, name))
\* a directory of PATH before the first supplier holds the candidate path
PassedOver(name) ==
  \E k \in 1..Len(PathDirs(env)) :
    /\ existsSync(fs, FullPath(PathDirs(env)[k], name))
    /\ ~Supplies(PathDirs(env)[k], name)
    /\ \A j \in 1..k : ~Supplies(PathDirs(env)[j], name)
\* what resolving name gives when the first supplier decides
FromFirstSupplier(name) ==
  LET s == Suppliers(name) IN
  IF s = <<>> THEN [status |-> "return", fn |-> Null]
  ELSE LET full == FullPath(s[1], name)
           entry == commandStores[mounts[s[1]]][name]
       IN IF full \in DOMAIN loadedCommands THEN [status |-> "return", fn |-> loadedCommands[full]]
          ELSE IF entry.kind = "loader" THEN [status |-> "await", path |-> full, entry |-> entry]
          ELSE [status |-> "return", fn |-> entry]

\* C39: a PATH directory in which the candidate path exists but which is no
\* registry mount, or whose table lacks the name, is passed over: the name
\* resolves exactly when a registry directory of PATH has an entry for it,
\* and then to the first such directory's entry.
C39_ResolutionContinues ==
  /\ \A name \in ResolvedNames : resolveCommand(name) = FromFirstSupplier(name)
  /\ \A i \in 1..Len(tasks) :
       /\ tasks[i].pc = "loading" => tasks[i].path = FullPath(Suppliers(tasks[i].name)[1], tasks[i].name)
       /\ (tasks[i].pc = "resolved" /\ tasks[i].fn = Null) <=> Suppliers(tasks[i].name) = <<>>

\* b is being run from /usr/bin although /home/guest/b and /bin/b exist and
\* come first on PATH, and in another session is not found
C39_Witness ==
  /\ PassedOver(NameB)
  /\ Len(PathDirs(env)) = 3
  /\ Len(tasks) = 1
  /\ tasks[1].name = NameB
  /\ tasks[1].fn = UsrBinCommands[NameB]


(***************************************************************************)
(* The draft and what the terminal shows after the prompt (C40), over Spec.*)
(***************************************************************************)
IsPromptWrite(w) == w.sink = "stdout" /\ w.text # <<>> /\ w.text[Len(w.text)] = "$ "
\* the positions of the prompts among the writes of the step
PromptWrites == { k \in 1..Len(written') : IsPromptWrite(written'[k]) }
RECURSIVE TextFrom(_, _)
\* the texts written by writes[k..], joined
TextFrom(writes, k) ==
  IF k > Len(writes) THEN <<>> ELSE writes[k].text \o TextFrom(writes, k + 1)
\* what the step left on the terminal after its last prompt
ShownAfterPrompt ==
  TextFrom(written', (CHOOSE k \in PromptWrites : \A j \in PromptWrites : j <= k) + 1)

\* C40: whenever a step writes a prompt, what follows the last prompt on the
\* terminal is the draft: the draft is empty, or it is echoed again after the
\* prompt; also when the prompt ends a command during which the user typed.
C40_PromptShowsDraft == [][PromptWrites # {} => ShownAfterPrompt = inputBuffer']_vars

\* the same for the prompts written by the keystroke handler itself
C40_HandlerPromptShowsDraft ==
  [][(PromptWrites # {} /\ Len(tasks') >= Len(tasks)) => ShownAfterPrompt = inputBuffer']_vars

\* a command ended and its prompt was written while the draft holds 'b'
C40_Witness ==
  /\ tasks = <<>>
  /\ inputBuffer = <<"b">>
  /\ written # <<>> /\ IsPromptWrite(written[Len(written)])

====
